---- MODULE Spec2Model ----
(***************************************************************************)
(* VidSubX: the cancellable OCR batch stage (frames_to_text), the worker   *)
(* pool it drives, the process-wide cancellation flag, the configuration   *)
(* store and the PerformanceOptimiser that tunes the worker count.         *)
(***************************************************************************)
EXTENDS Integers, Sequences, FiniteSets, TLC

\* ------------------------------------------------------------------ bounds
MaxFrameTexts == 5      \* FrameText samples handed to one call of SubtitleMerger.merge
MaxNoiseTolerance == 1  \* configured max_consecutive_short_durs ranges over 0..MaxNoiseTolerance
MaxSpanPoints == 2      \* span starts and ends range over 0..MaxSpanPoints strides
MaxFrameNo == 30        \* frame numbers handed to frame_no_to_duration range over 0..MaxFrameNo
MaxRuns == 2            \* calls of frames_to_text in one behaviour
MaxFrames == 3          \* frames found in the frame directory of one run
MaxBatchSize == 2       \* configured text_extraction_batch_size ranges over 1..MaxBatchSize
PhysicalCores == 2      \* psutil.cpu_count(logical=False) of the machine
MaxGpuProcesses == 2    \* configured gpu_ocr_processes at start ranges over 1..MaxGpuProcesses

\* ------------------------------------------------------- program constants
CpuLow == 80
CpuHigh == 95
GpuLow == 40
GpuHigh == 65
CpuIntraThreads == 4    \* cpu_onnx_intra_threads: read and written back, never tuned
GpuIntraThreads == 4    \* gpu_onnx_intra_threads: read and written back, never tuned

\* utilisation percentages the sensors may report (psutil.cpu_percent, nvml)
CpuUsageSamples == {60, 95, 100}
GpuUsageSamples == {15, 65, 70}

VARIABLES
    interrupt_process,  \* Process.interrupt_process
    CONFIG,             \* attributes of the Config singleton
    config_file,        \* what config.ini holds for the tuned keys
    config_writes,      \* number of set_config calls so far
    runs,               \* calls of frames_to_text so far
    pc,                 \* position of the thread running frames_to_text
    outcome,            \* how the last call ended
    exc,                \* the exception a raising call ended with
    batch_size,         \* local batch_size (line 82)
    device,             \* local device (line 83)
    no_processes,       \* local no_processes (line 84)
    ocr_engine,         \* TRUE once CustomPaddleOCR(**ocr_config) was built in this call
    files,              \* number of frames listed from frame_output
    file_batches,       \* file_batches (line 94): sequence of sequences of frames
    status,             \* state of each future
    done_frames,        \* frames of each batch already recognised and written
    inspected,          \* futures already yielded by as_completed
    i,                  \* loop counter of enumerate(as_completed(futures))
    cancel_idx,         \* position of cancel_futures in the futures list
    optimizer,          \* the optimiser object of this call
    record_calls,       \* calls of optimizer.record_perf in this call
    optimise_calls,     \* calls of optimizer.optimise_performance in this call
    reports,            \* (iteration, total) pairs print_progress has printed
    text_store,         \* frames whose <stem>.txt exists in text_output
    line_sep,           \* local line_sep (line 85)
    text_content,       \* what each <stem>.txt of text_output holds
    frame_texts,        \* the FrameText sequence handed to SubtitleMerger.merge
    merger_config,      \* the Config values SubtitleMerger reads
    cues,               \* the cues SubtitleMerger.merge returned
    merge_pc,           \* "idle", "called" or "returned": where the call of merge is
    persisted,          \* config.ini as it was found when Config() was constructed
    ini_file,           \* config.ini on disk
    parser,             \* self.config, the ConfigParser of the Config object
    attrs,              \* the configuration attributes set on the Config object so far
    loader_pc,          \* position of the thread constructing Config
    resets,             \* times config_loader deleted config.ini
    merged_name,        \* what similar_text_name_gen returned
    name_b,             \* the second cue name handed to similar_text_name_gen
    name_a,             \* the first cue name handed to similar_text_name_gen
    span_b,             \* the (start, end) span name_b encodes, in tenths of a millisecond
    span_a,             \* the (start, end) span name_a encodes, in tenths of a millisecond
    util_result,          \* what the called utility returned
    util_args,            \* the utility function called and its arguments
    util_pc,            \* "idle", "called" or "returned": where the call of a utility is
    seen                \* the caller's record of how its calls ended, when it keeps one

vars == <<interrupt_process, CONFIG, config_file, config_writes, runs, pc, outcome, exc,
          batch_size, device, no_processes, ocr_engine, files, file_batches, status,
          done_frames, inspected, i, cancel_idx, optimizer, record_calls,
          optimise_calls, reports, text_store, line_sep, text_content, frame_texts,
          merger_config, cues, merge_pc, persisted, ini_file, parser, attrs, loader_pc, resets,
          merged_name,
          name_b,
          name_a,
          span_b,
          span_a,
          util_result,
          util_args, util_pc, seen>>

\* the state frames_to_text never touches
mergerVars == <<frame_texts, merger_config, cues, merge_pc>>
loaderVars == <<persisted, ini_file, parser, attrs, loader_pc, resets>>
utilVars == <<util_args, util_result, span_a, span_b, name_a, name_b, merged_name, util_pc>>
restVars == <<mergerVars, loaderVars, utilVars>>

\* config_schema["Subtitle Generator"]: the defaults, the threshold in percent
DefaultMergerConfig ==
    [text_similarity_threshold |-> 85, min_consecutive_sub_dur_ms |-> 500,
     max_consecutive_short_durs |-> 4, min_sub_duration_ms |-> 120]

\* config.ini does not exist
NoFile == [exists |-> FALSE, parse |-> "ok", sections |-> <<>>]

\* ------------------------------------------------------------ pure helpers
RECURSIVE Sum(_)
Sum(s) == IF s = <<>> THEN 0 ELSE Head(s) + Sum(Tail(s))

\* self.cpu_percentages.pop()
Pop(s) == SubSeq(s, 1, Len(s) - 1)

\* the slices run one frame too far: [files[i:i + batch_size + 1] for i in ...]
Batches_Overlapping(n, bs) ==
    [k \in 1..((n + bs - 1) \div bs) |->
        [j \in 1..(IF k * bs + 1 <= n THEN bs + 1 ELSE n - (k - 1) * bs) |-> (k - 1) * bs + j]]

\* [files[i:i + batch_size] for i in range(0, len(files), batch_size)]
Batches(n, bs) ==
    [k \in 1..((n + bs - 1) \div bs) |->
        [j \in 1..(IF k * bs <= n THEN bs ELSE n - (k - 1) * bs) |-> (k - 1) * bs + j]]

BatchIds == DOMAIN file_batches
Running == {b \in BatchIds : status[b] = "running"}
Pending == {b \in BatchIds : status[b] = "pending"}
Finished == {b \in BatchIds : status[b] \in {"finished", "failed"}}

TunedKeys(c) == [cpu_ocr_processes |-> c.cpu_ocr_processes,
                 cpu_onnx_intra_threads |-> c.cpu_onnx_intra_threads,
                 gpu_ocr_processes |-> c.gpu_ocr_processes,
                 gpu_onnx_intra_threads |-> c.gpu_onnx_intra_threads]

\* the optimizer local before line 97
NoOptimizer == [kind |-> "none"]

\* a null optimiser that still reads the worker counts and tunes them
NullPerformanceOptimiser_Tunes ==
    [kind |-> "perf", use_gpu |-> CONFIG.use_gpu,
     cpu_ocr_processes |-> CONFIG.cpu_ocr_processes,
     cpu_onnx_intra_threads |-> CONFIG.cpu_onnx_intra_threads,
     gpu_ocr_processes |-> CONFIG.gpu_ocr_processes,
     gpu_onnx_intra_threads |-> CONFIG.gpu_onnx_intra_threads,
     cpu_percentages |-> <<>>, gpu_percentages |-> <<>>]

\* NullPerformanceOptimiser()
NullPerformanceOptimiser == [kind |-> "null"]
PerformanceOptimiser(c) ==
    [kind |-> "perf", use_gpu |-> c.use_gpu,
     cpu_ocr_processes |-> c.cpu_ocr_processes,
     cpu_onnx_intra_threads |-> c.cpu_onnx_intra_threads,
     gpu_ocr_processes |-> c.gpu_ocr_processes,
     gpu_onnx_intra_threads |-> c.gpu_onnx_intra_threads,
     cpu_percentages |-> <<>>, gpu_percentages |-> <<>>]

\* config_schema["OCR Performance"]: the defaults of the worker counts
Max(a, b) == IF a >= b THEN a ELSE b
DefaultCpuProcesses == PhysicalCores \div 2
DefaultGpuProcesses == Max(2, PhysicalCores \div 3)

\* ------------------------------------------------------------------- Init
InitProgram ==
    /\ interrupt_process = FALSE
    /\ \E cpu \in 1..PhysicalCores, gpu \in 1..MaxGpuProcesses,
          bs \in 1..MaxBatchSize, g \in BOOLEAN, a \in BOOLEAN, lb \in BOOLEAN :
          \* the worker count of the device that is not in use stays at its default
          /\ g => cpu = DefaultCpuProcesses
          /\ ~g => gpu = DefaultGpuProcesses
          \* the separator is at its default when tuning is on: the tuner never reads it
          /\ a => lb
          /\ CONFIG = [cpu_ocr_processes |-> cpu, cpu_onnx_intra_threads |-> CpuIntraThreads,
                       gpu_ocr_processes |-> gpu, gpu_onnx_intra_threads |-> GpuIntraThreads,
                       text_extraction_batch_size |-> bs, use_gpu |-> g,
                       auto_optimize_perf |-> a, line_break |-> lb]
    /\ config_file = TunedKeys(CONFIG)
    /\ config_writes = 0
    /\ runs = 0
    /\ pc = "idle"
    /\ outcome = "none"
    /\ exc = "none"
    /\ batch_size = 0
    /\ device = "CPU"
    /\ no_processes = 0
    /\ ocr_engine = FALSE
    /\ files = 0
    /\ file_batches = <<>>
    /\ status = <<>>
    /\ done_frames = <<>>
    /\ inspected = {}
    /\ i = 0
    /\ cancel_idx = 0
    /\ optimizer = NoOptimizer
    /\ record_calls = 0
    /\ optimise_calls = 0
    /\ reports = <<>>
    /\ text_store = {}
    /\ line_sep = "unset"
    /\ text_content = <<>>

\* no merge was asked for
InitMergerIdle ==
    /\ frame_texts = <<>>
    /\ merger_config = DefaultMergerConfig
    /\ cues = <<>>
    /\ merge_pc = "idle"

\* the Config object is taken as constructed: CONFIG holds what it loaded
InitLoaderIdle ==
    /\ persisted = NoFile
    /\ ini_file = NoFile
    /\ parser = <<>>
    /\ attrs = <<>>
    /\ loader_pc = "constructed"
    /\ resets = 0

\* no utility function was called
InitUtilIdle ==
    /\ util_args = [fn |-> "none"]
    /\ util_result = <<>>
    /\ span_a = <<0, 0>>
    /\ span_b = <<0, 0>>
    /\ name_a = <<>>
    /\ name_b = <<>>
    /\ merged_name = <<>>
    /\ util_pc = "idle"

InitRest == InitMergerIdle /\ InitLoaderIdle /\ InitUtilIdle

\* the start without a caller that records how its calls ended
Init ==
    /\ InitProgram
    /\ InitRest
    /\ seen = [watching |-> FALSE, views |-> {}]

\* the same start, with a caller that records what each call leaves it with
InitCaller ==
    /\ InitProgram
    /\ InitRest
    /\ seen = [watching |-> TRUE, views |-> {}]

\* ------------------------------------------------ Process (cancellation)
\* Process.stop_process: called by the owner of the operation at any time
stop_process ==
    /\ interrupt_process' = TRUE
    /\ UNCHANGED <<CONFIG, config_file, config_writes, runs, pc, outcome, exc, batch_size,
                   device, no_processes, ocr_engine, files, file_batches, status,
                   done_frames, inspected, i, cancel_idx, optimizer, record_calls,
                   optimise_calls, reports, text_store, text_content, seen>>
    /\ UNCHANGED <<line_sep, restVars>>

\* Process.start_process
start_process ==
    /\ interrupt_process' = FALSE
    /\ UNCHANGED <<CONFIG, config_file, config_writes, runs, pc, outcome, exc, batch_size,
                   device, no_processes, ocr_engine, files, file_batches, status,
                   done_frames, inspected, i, cancel_idx, optimizer, record_calls,
                   optimise_calls, reports, text_store, text_content, seen>>
    /\ UNCHANGED <<line_sep, restVars>>

\* --------------------------------------------------- end of a call
\* what the caller holds when frames_to_text has returned or raised: the
\* returned value or exception, the flag, the text directory and the CONFIG
Observation(kind, e, flag, texts, n, cfgChanged) ==
    [kind |-> kind, ret |-> IF e = "none" THEN "None" ELSE e, flag |-> flag,
     texts |-> (texts = 1..n), cfg |-> cfgChanged]

Ends(kind, e, texts, n, cfgChanged) ==
    /\ pc' = "idle"
    /\ outcome' = kind
    /\ exc' = e
    /\ seen' = IF seen.watching
               THEN [seen EXCEPT !.views = @ \cup {Observation(kind, e, interrupt_process,
                                                               texts, n, cfgChanged)}]
               ELSE seen

\* --------------------------------------------------- frames_to_text, entry
\* the flag is looked at only after the OCR engine was built
CallInterrupted_EngineFirst ==
    /\ pc = "idle" /\ runs < MaxRuns
    /\ interrupt_process
    /\ runs' = runs + 1
    /\ batch_size' = CONFIG.text_extraction_batch_size
    /\ device' = IF CONFIG.use_gpu THEN "GPU" ELSE "CPU"
    /\ no_processes' = IF CONFIG.use_gpu THEN CONFIG.gpu_ocr_processes
                       ELSE CONFIG.cpu_ocr_processes
    /\ \E n \in 0..MaxFrames : files' = n
    /\ ocr_engine' = TRUE
    /\ file_batches' = <<>> /\ status' = <<>> /\ done_frames' = <<>>
    /\ inspected' = {} /\ i' = 0 /\ cancel_idx' = 0
    /\ optimizer' = NoOptimizer /\ record_calls' = 0 /\ optimise_calls' = 0
    /\ reports' = <<>> /\ text_store' = {} /\ text_content' = <<>>
    /\ line_sep' = IF CONFIG.line_break THEN "\n" ELSE " "
    /\ Ends("interrupted", "none", {}, files', FALSE)
    /\ UNCHANGED <<interrupt_process, CONFIG, config_file, config_writes>>
    /\ UNCHANGED restVars

\* lines 82-89: the flag is already set, the call returns at once
CallInterrupted ==
    /\ pc = "idle" /\ runs < MaxRuns
    /\ interrupt_process
    /\ runs' = runs + 1
    /\ batch_size' = CONFIG.text_extraction_batch_size
    /\ device' = IF CONFIG.use_gpu THEN "GPU" ELSE "CPU"
    /\ no_processes' = IF CONFIG.use_gpu THEN CONFIG.gpu_ocr_processes
                       ELSE CONFIG.cpu_ocr_processes
    /\ \E n \in 0..MaxFrames : files' = n
    /\ ocr_engine' = FALSE
    /\ file_batches' = <<>> /\ status' = <<>> /\ done_frames' = <<>>
    /\ inspected' = {} /\ i' = 0 /\ cancel_idx' = 0
    /\ optimizer' = NoOptimizer /\ record_calls' = 0 /\ optimise_calls' = 0
    /\ reports' = <<>> /\ text_store' = {} /\ text_content' = <<>>
    /\ line_sep' = IF CONFIG.line_break THEN "\n" ELSE " "
    /\ Ends("interrupted", "none", {}, files', FALSE)
    /\ UNCHANGED <<interrupt_process, CONFIG, config_file, config_writes>>
    /\ UNCHANGED restVars

\* lines 82-99: engine, batches, optimiser, pool, all batches submitted.
\* ThreadPoolExecutor(max_workers) raises ValueError when max_workers <= 0.
Call ==
    /\ pc = "idle" /\ runs < MaxRuns
    /\ ~interrupt_process
    /\ runs' = runs + 1
    /\ batch_size' = CONFIG.text_extraction_batch_size
    /\ device' = IF CONFIG.use_gpu THEN "GPU" ELSE "CPU"
    /\ no_processes' = IF CONFIG.use_gpu THEN CONFIG.gpu_ocr_processes
                       ELSE CONFIG.cpu_ocr_processes
    /\ \E n \in 0..MaxFrames : files' = n
    /\ ocr_engine' = TRUE
    /\ file_batches' = Batches(files', batch_size')
    /\ optimizer' = IF CONFIG.auto_optimize_perf THEN PerformanceOptimiser(CONFIG)
                    ELSE NullPerformanceOptimiser
    /\ inspected' = {} /\ i' = 0 /\ cancel_idx' = 0
    /\ record_calls' = 0 /\ optimise_calls' = 0
    /\ reports' = <<>> /\ text_store' = {} /\ text_content' = <<>>
    /\ line_sep' = IF CONFIG.line_break THEN "\n" ELSE " "
    /\ done_frames' = [b \in DOMAIN file_batches' |-> 0]
    /\ IF no_processes' <= 0
       THEN /\ status' = [b \in DOMAIN file_batches' |-> "unsubmitted"]
            /\ Ends("raised", "ValueError", {}, files', FALSE)
       ELSE /\ status' = [b \in DOMAIN file_batches' |-> "pending"]
            /\ pc' = "loop"
            /\ outcome' = "running"
            /\ exc' = "none"
            /\ seen' = seen
    /\ UNCHANGED <<interrupt_process, CONFIG, config_file, config_writes>>
    /\ UNCHANGED restVars

\* ------------------------------------------------------------ the workers
PoolAlive == pc \in {"loop", "cancelling", "exit_cancelled", "exit_raising"}

\* the workers take work items only while the main loop is running
StartBatch_OnlyInLoop(b) ==
    /\ pc = "loop"
    /\ b \in Pending
    /\ \A j \in Pending : b <= j
    /\ Cardinality(Running) < no_processes
    /\ status' = [status EXCEPT ![b] = "running"]
    /\ UNCHANGED <<interrupt_process, CONFIG, config_file, config_writes, runs, pc, outcome,
                   exc, batch_size, device, no_processes, ocr_engine, files, file_batches,
                   done_frames, inspected, i, cancel_idx, optimizer, record_calls,
                   optimise_calls, reports, text_store, text_content, seen>>
    /\ UNCHANGED <<line_sep, restVars>>

\* a free worker thread takes the oldest work item that was not cancelled
StartBatch(b) ==
    /\ PoolAlive
    /\ b \in Pending
    /\ \A j \in Pending : b <= j
    /\ Cardinality(Running) < no_processes
    /\ status' = [status EXCEPT ![b] = "running"]
    /\ UNCHANGED <<interrupt_process, CONFIG, config_file, config_writes, runs, pc, outcome,
                   exc, batch_size, device, no_processes, ocr_engine, files, file_batches,
                   done_frames, inspected, i, cancel_idx, optimizer, record_calls,
                   optimise_calls, reports, text_store, text_content, seen>>
    /\ UNCHANGED <<line_sep, restVars>>

\* result[0]["rec_texts"] of ocr_engine.predict: the lines a frame shows; the
\* recogniser gives the same lines whenever it is given the same frame
rec_texts(file) == [k \in 1..(file % 3) |-> <<"line", file, k>>]

\* line_sep.join(lines)
RECURSIVE join(_, _)
join(sep, lines) ==
    IF Len(lines) = 0 THEN <<>>
    ELSE IF Len(lines) = 1 THEN <<lines[1]>>
    ELSE <<lines[1], sep>> \o join(sep, Tail(lines))

\* open(f"{text_output}/{file.stem}.txt", 'w').write(text)
write_text(store, file, text) ==
    [f \in DOMAIN store \cup {file} |-> IF f = file THEN text ELSE store[f]]

\* the artifact is named after the batch, not after the frame's stem
RecogniseFrame_NamedByBatch(b) ==
    /\ PoolAlive
    /\ b \in Running
    /\ done_frames[b] < Len(file_batches[b])
    /\ text_store' = text_store \cup {b}
    /\ text_content' = write_text(text_content, b,
                                  join(line_sep, rec_texts(file_batches[b][done_frames[b] + 1])))
    /\ done_frames' = [done_frames EXCEPT ![b] = @ + 1]
    /\ status' = [status EXCEPT ![b] =
                     IF done_frames[b] + 1 = Len(file_batches[b]) THEN "finished" ELSE @]
    /\ UNCHANGED <<interrupt_process, CONFIG, config_file, config_writes, runs, pc, outcome,
                   exc, batch_size, device, no_processes, ocr_engine, files, file_batches,
                   inspected, i, cancel_idx, optimizer, record_calls, optimise_calls,
                   reports, seen>>
    /\ UNCHANGED <<line_sep, restVars>>

\* the workers share one result buffer: a worker may write the lines another
\* running worker has just recognised
RecogniseFrame_SharedResult(b) ==
    /\ PoolAlive
    /\ b \in Running
    /\ done_frames[b] < Len(file_batches[b])
    /\ text_store' = text_store \cup {file_batches[b][done_frames[b] + 1]}
    /\ \E w \in Running :
          text_content' = write_text(text_content, file_batches[b][done_frames[b] + 1],
                                     join(line_sep, rec_texts(file_batches[w][done_frames[w] + 1])))
    /\ done_frames' = [done_frames EXCEPT ![b] = @ + 1]
    /\ status' = [status EXCEPT ![b] =
                     IF done_frames[b] + 1 = Len(file_batches[b]) THEN "finished" ELSE @]
    /\ UNCHANGED <<interrupt_process, CONFIG, config_file, config_writes, runs, pc, outcome,
                   exc, batch_size, device, no_processes, ocr_engine, files, file_batches,
                   inspected, i, cancel_idx, optimizer, record_calls, optimise_calls,
                   reports, seen>>
    /\ UNCHANGED <<line_sep, restVars>>

\* extract_text, one turn of its loop: predict, join, write <stem>.txt
RecogniseFrame(b) ==
    /\ PoolAlive
    /\ b \in Running
    /\ done_frames[b] < Len(file_batches[b])
    /\ text_store' = text_store \cup {file_batches[b][done_frames[b] + 1]}
    /\ text_content' = write_text(text_content, file_batches[b][done_frames[b] + 1],
                                  join(line_sep, rec_texts(file_batches[b][done_frames[b] + 1])))
    /\ done_frames' = [done_frames EXCEPT ![b] = @ + 1]
    /\ status' = [status EXCEPT ![b] =
                     IF done_frames[b] + 1 = Len(file_batches[b]) THEN "finished" ELSE @]
    /\ UNCHANGED <<interrupt_process, CONFIG, config_file, config_writes, runs, pc, outcome,
                   exc, batch_size, device, no_processes, ocr_engine, files, file_batches,
                   inspected, i, cancel_idx, optimizer, record_calls, optimise_calls,
                   reports, seen>>
    /\ UNCHANGED <<line_sep, restVars>>

\* extract_text, predict or the write raises: the future holds the exception
RecogniseRaises(b) ==
    /\ PoolAlive
    /\ b \in Running
    /\ done_frames[b] < Len(file_batches[b])
    /\ status' = [status EXCEPT ![b] = "failed"]
    /\ UNCHANGED <<interrupt_process, CONFIG, config_file, config_writes, runs, pc, outcome,
                   exc, batch_size, device, no_processes, ocr_engine, files, file_batches,
                   done_frames, inspected, i, cancel_idx, optimizer, record_calls,
                   optimise_calls, reports, text_store, text_content, seen>>
    /\ UNCHANGED <<line_sep, restVars>>

\* ------------------------------------------- frames_to_text, the main loop
\* as_completed hands over a finished future that was not yet handed over
Yielded(b) ==
    /\ pc = "loop"
    /\ b \in Finished
    /\ b \notin inspected

\* print_progress without its guard for total = 0
print_progress_NoGuard(iteration, total) == Append(reports, <<iteration, total>>)

\* print_progress(i, no_batches - 1, prefix): prints nothing when total = 0
print_progress(iteration, total) ==
    IF total = 0 THEN reports ELSE Append(reports, <<iteration, total>>)

\* the failure of an inspected batch is swallowed and the loop goes on
InspectFailed_Swallowed(b) ==
    /\ Yielded(b)
    /\ status[b] = "failed"
    /\ inspected' = inspected \cup {b}
    /\ i' = i + 1
    /\ UNCHANGED <<interrupt_process, CONFIG, config_file, config_writes, runs, pc, outcome,
                   exc, batch_size, device, no_processes, ocr_engine, files, file_batches,
                   status, done_frames, cancel_idx, optimizer, record_calls,
                   optimise_calls, reports, text_store, text_content, seen>>
    /\ UNCHANGED <<line_sep, restVars>>

\* line 101: f.result() raises the worker's exception; it leaves the with
\* block, whose __exit__ is shutdown(wait=True)
InspectFailed(b) ==
    /\ Yielded(b)
    /\ status[b] = "failed"
    /\ inspected' = inspected \cup {b}
    /\ pc' = "exit_raising"
    /\ UNCHANGED <<interrupt_process, CONFIG, config_file, config_writes, runs, outcome,
                   exc, batch_size, device, no_processes, ocr_engine, files, file_batches,
                   status, done_frames, i, cancel_idx, optimizer, record_calls,
                   optimise_calls, reports, text_store, text_content, seen>>
    /\ UNCHANGED <<line_sep, restVars>>

\* lines 101-105: the batch succeeded and the flag is set
InspectInterrupted(b) ==
    /\ Yielded(b)
    /\ status[b] = "finished"
    /\ interrupt_process
    /\ inspected' = inspected \cup {b}
    /\ reports' = print_progress(i, Len(file_batches) - 1)
    /\ i' = i + 1
    /\ pc' = "cancelling"
    /\ cancel_idx' = 1
    /\ UNCHANGED <<interrupt_process, CONFIG, config_file, config_writes, runs, outcome,
                   exc, batch_size, device, no_processes, ocr_engine, files, file_batches,
                   status, done_frames, optimizer, record_calls, optimise_calls,
                   text_store, text_content, seen>>
    /\ UNCHANGED <<line_sep, restVars>>

\* PerformanceOptimiser.record_perf / NullPerformanceOptimiser.record_perf
record_perf(o, usage) ==
    IF o.kind = "perf"
    THEN IF o.use_gpu
         THEN [o EXCEPT !.gpu_percentages = Append(@, usage)]
         ELSE [o EXCEPT !.cpu_percentages = Append(@, usage)]
    ELSE o

UsageSamples(o) ==
    IF o.kind = "perf"
    THEN IF o.use_gpu THEN GpuUsageSamples ELSE CpuUsageSamples
    ELSE {0}

\* the sample of a completed batch is not recorded
InspectRecord_NoRecord(b) ==
    /\ Yielded(b)
    /\ status[b] = "finished"
    /\ ~interrupt_process
    /\ inspected' = inspected \cup {b}
    /\ reports' = print_progress(i, Len(file_batches) - 1)
    /\ i' = i + 1
    /\ UNCHANGED <<interrupt_process, CONFIG, config_file, config_writes, runs, pc, outcome,
                   exc, batch_size, device, no_processes, ocr_engine, files, file_batches,
                   status, done_frames, cancel_idx, optimizer, record_calls,
                   optimise_calls, text_store, text_content, seen>>
    /\ UNCHANGED <<line_sep, restVars>>

\* lines 101-107: the batch succeeded, the flag is clear, a sample is taken
InspectRecord(b) ==
    /\ Yielded(b)
    /\ status[b] = "finished"
    /\ ~interrupt_process
    /\ inspected' = inspected \cup {b}
    /\ reports' = print_progress(i, Len(file_batches) - 1)
    /\ i' = i + 1
    /\ \E usage \in UsageSamples(optimizer) : optimizer' = record_perf(optimizer, usage)
    /\ record_calls' = record_calls + 1
    /\ UNCHANGED <<interrupt_process, CONFIG, config_file, config_writes, runs, pc, outcome,
                   exc, batch_size, device, no_processes, ocr_engine, files, file_batches,
                   status, done_frames, cancel_idx, optimise_calls, text_store, text_content, seen>>
    /\ UNCHANGED <<line_sep, restVars>>

\* cancel_futures walks the list without cancelling anything
CancelFuture_Skips ==
    /\ pc = "cancelling"
    /\ cancel_idx <= Len(file_batches)
    /\ cancel_idx' = cancel_idx + 1
    /\ pc' = IF cancel_idx = Len(file_batches) THEN "exit_cancelled" ELSE pc
    /\ UNCHANGED <<interrupt_process, CONFIG, config_file, config_writes, runs, outcome,
                   exc, batch_size, device, no_processes, ocr_engine, files, file_batches,
                   status, done_frames, inspected, i, optimizer, record_calls,
                   optimise_calls, reports, text_store, text_content, seen>>
    /\ UNCHANGED <<line_sep, restVars>>

\* cancel_futures also stops the batches that are running
CancelFuture_Preempts ==
    /\ pc = "cancelling"
    /\ cancel_idx <= Len(file_batches)
    /\ status' = [status EXCEPT ![cancel_idx] =
                     IF @ \in {"pending", "running"} THEN "cancelled" ELSE @]
    /\ cancel_idx' = cancel_idx + 1
    /\ pc' = IF cancel_idx = Len(file_batches) THEN "exit_cancelled" ELSE pc
    /\ UNCHANGED <<interrupt_process, CONFIG, config_file, config_writes, runs, outcome,
                   exc, batch_size, device, no_processes, ocr_engine, files, file_batches,
                   done_frames, inspected, i, optimizer, record_calls, optimise_calls,
                   reports, text_store, text_content, seen>>
    /\ UNCHANGED <<line_sep, restVars>>

\* cancel_futures, one turn of its loop: Future.cancel() cancels a pending
\* future and does nothing to a running or finished one
CancelFuture ==
    /\ pc = "cancelling"
    /\ cancel_idx <= Len(file_batches)
    /\ status' = [status EXCEPT ![cancel_idx] = IF @ = "pending" THEN "cancelled" ELSE @]
    /\ cancel_idx' = cancel_idx + 1
    /\ pc' = IF cancel_idx = Len(file_batches) THEN "exit_cancelled" ELSE pc
    /\ UNCHANGED <<interrupt_process, CONFIG, config_file, config_writes, runs, outcome,
                   exc, batch_size, device, no_processes, ocr_engine, files, file_batches,
                   done_frames, inspected, i, optimizer, record_calls, optimise_calls,
                   reports, text_store, text_content, seen>>
    /\ UNCHANGED <<line_sep, restVars>>

\* the cancelled run still hands its samples to the optimiser before it returns
ExitCancelled_Optimises ==
    /\ pc = "exit_cancelled"
    /\ Running = {} /\ Pending = {}
    /\ optimise_calls' = optimise_calls + 1
    /\ Ends("cancelled", "none", text_store, files, FALSE)
    /\ UNCHANGED <<interrupt_process, CONFIG, config_file, config_writes, runs, batch_size,
                   device, no_processes, ocr_engine, files, file_batches, status,
                   done_frames, inspected, i, cancel_idx, optimizer, record_calls,
                   reports, text_store, text_content>>
    /\ UNCHANGED <<line_sep, restVars>>

\* line 106: return inside the with block; shutdown(wait=True) joins the
\* workers, which first drain every work item that was not cancelled
ExitCancelled ==
    /\ pc = "exit_cancelled"
    /\ Running = {} /\ Pending = {}
    /\ Ends("cancelled", "none", text_store, files, FALSE)
    /\ UNCHANGED <<interrupt_process, CONFIG, config_file, config_writes, runs, batch_size,
                   device, no_processes, ocr_engine, files, file_batches, status,
                   done_frames, inspected, i, cancel_idx, optimizer, record_calls,
                   optimise_calls, reports, text_store, text_content>>
    /\ UNCHANGED <<line_sep, restVars>>

\* the worker's exception leaves frames_to_text once shutdown(wait=True) is over
ExitRaising ==
    /\ pc = "exit_raising"
    /\ Running = {} /\ Pending = {}
    /\ Ends("raised", "WorkerError", text_store, files, FALSE)
    /\ UNCHANGED <<interrupt_process, CONFIG, config_file, config_writes, runs, batch_size,
                   device, no_processes, ocr_engine, files, file_batches, status,
                   done_frames, inspected, i, cancel_idx, optimizer, record_calls,
                   optimise_calls, reports, text_store, text_content>>
    /\ UNCHANGED <<line_sep, restVars>>

\* ---------------------------------------------------- PerformanceOptimiser
\* the increase forgets the bound of the physical cores
optimize_cpu_usage_NoCoreBound(o) ==
    LET rest == Pop(o.cpu_percentages) IN
    [o EXCEPT !.cpu_percentages = rest,
              !.cpu_ocr_processes =
                  IF Sum(rest) < CpuLow * Len(rest) THEN @ + 1
                  ELSE IF Sum(rest) > CpuHigh * Len(rest) THEN @ - 1
                  ELSE @]

\* the last sample is popped but the mean is taken over all samples
optimize_cpu_usage_KeepsLast(o) ==
    LET all == o.cpu_percentages IN
    [o EXCEPT !.cpu_percentages = Pop(all),
              !.cpu_ocr_processes =
                  IF Sum(all) < CpuLow * Len(all) /\ @ < PhysicalCores THEN @ + 1
                  ELSE IF Sum(all) > CpuHigh * Len(all) THEN @ - 1
                  ELSE @]

\* _optimize_cpu_usage, once the mean exists
optimize_cpu_usage(o) ==
    LET rest == Pop(o.cpu_percentages) IN
    [o EXCEPT !.cpu_percentages = rest,
              !.cpu_ocr_processes =
                  IF Sum(rest) < CpuLow * Len(rest) /\ @ < PhysicalCores THEN @ + 1
                  ELSE IF Sum(rest) > CpuHigh * Len(rest) THEN @ - 1
                  ELSE @]

\* _optimize_gpu_usage, once the mean exists
optimize_gpu_usage(o) ==
    LET rest == Pop(o.gpu_percentages) IN
    [o EXCEPT !.gpu_percentages = rest,
              !.gpu_ocr_processes =
                  IF Sum(rest) < GpuLow * Len(rest) THEN @ + 1
                  ELSE IF Sum(rest) > GpuHigh * Len(rest) THEN @ - 1
                  ELSE @]

\* the samples of the active device
ActiveSamples(o) == IF o.use_gpu THEN o.gpu_percentages ELSE o.cpu_percentages

\* list.pop() of an empty list raises IndexError; sum(l) / len(l) of an
\* empty list raises ZeroDivisionError
OptimiseError(o) ==
    IF o.kind # "perf" THEN "none"
    ELSE IF Len(ActiveSamples(o)) = 0 THEN "IndexError"
    ELSE IF Len(ActiveSamples(o)) = 1 THEN "ZeroDivisionError"
    ELSE "none"

\* every run is taken to have changed something
changes_made_Always(o, c) == TRUE

\* _changes_made
changes_made(o, c) == TunedKeys(o) # TunedKeys(c)

\* Config.set_config(**{val: getattr(self, val) for val in self.values})
set_config(c, o) ==
    [c EXCEPT !.cpu_ocr_processes = o.cpu_ocr_processes,
              !.cpu_onnx_intra_threads = o.cpu_onnx_intra_threads,
              !.gpu_ocr_processes = o.gpu_ocr_processes,
              !.gpu_onnx_intra_threads = o.gpu_onnx_intra_threads]

\* optimise_performance of either optimiser, when it does not raise
optimise_performance(o) ==
    IF o.kind = "perf"
    THEN IF o.use_gpu THEN optimize_gpu_usage(o) ELSE optimize_cpu_usage(o)
    ELSE o

\* the optimiser is run from inside the loop, while futures are outstanding
AllInspected_InsideLoop == pc = "loop" /\ inspected # {}

\* as_completed is exhausted and the with block has shut the pool down
AllInspected == pc = "loop" /\ inspected = BatchIds

\* lines 108-109: the loop is over, the pool is shut down, the optimiser
\* tunes and saves, "done" is logged
FinishDone ==
    /\ AllInspected
    /\ OptimiseError(optimizer) = "none"
    /\ optimise_calls' = optimise_calls + 1
    /\ optimizer' = optimise_performance(optimizer)
    /\ IF optimizer'.kind = "perf" /\ changes_made(optimizer', CONFIG)
       THEN /\ CONFIG' = set_config(CONFIG, optimizer')
            /\ config_file' = TunedKeys(optimizer')
            /\ config_writes' = config_writes + 1
       ELSE UNCHANGED <<CONFIG, config_file, config_writes>>
    /\ Ends("done", "none", text_store, files, CONFIG' # CONFIG)
    /\ UNCHANGED <<interrupt_process, runs, batch_size, device, no_processes, ocr_engine,
                   files, file_batches, status, done_frames, inspected, i, cancel_idx,
                   record_calls, reports, text_store, text_content>>
    /\ UNCHANGED <<line_sep, restVars>>

\* line 108: optimise_performance raises, nothing is saved, "done" is not logged
FinishOptimiseRaises ==
    /\ AllInspected
    /\ OptimiseError(optimizer) # "none"
    /\ optimise_calls' = optimise_calls + 1
    /\ optimizer' = IF optimizer.use_gpu
                    THEN [optimizer EXCEPT !.gpu_percentages = Pop(@)]
                    ELSE [optimizer EXCEPT !.cpu_percentages = Pop(@)]
    /\ Ends("raised", OptimiseError(optimizer), text_store, files, FALSE)
    /\ UNCHANGED <<interrupt_process, CONFIG, config_file, config_writes, runs, batch_size,
                   device, no_processes, ocr_engine, files, file_batches, status,
                   done_frames, inspected, i, cancel_idx, record_calls, reports,
                   text_store, text_content>>
    /\ UNCHANGED <<line_sep, restVars>>

\* ------------------------------------------------------------------- Next
Next ==
    \/ stop_process
    \/ start_process
    \/ CallInterrupted
    \/ Call
    \/ \E b \in BatchIds : StartBatch(b)
    \/ \E b \in BatchIds : RecogniseFrame(b)
    \/ \E b \in BatchIds : RecogniseRaises(b)
    \/ \E b \in BatchIds : InspectFailed(b)
    \/ \E b \in BatchIds : InspectInterrupted(b)
    \/ \E b \in BatchIds : InspectRecord(b)
    \/ CancelFuture
    \/ ExitCancelled
    \/ ExitRaising
    \/ FinishDone
    \/ FinishOptimiseRaises

Spec == Init /\ [][Next]_vars

\* the steps of the worker threads and of the thread running frames_to_text
WorkerStep(b) == StartBatch(b) \/ RecogniseFrame(b) \/ RecogniseRaises(b)
MainStep ==
    \/ \E b \in BatchIds : InspectFailed(b) \/ InspectInterrupted(b) \/ InspectRecord(b)
    \/ CancelFuture
    \/ ExitCancelled
    \/ ExitRaising
    \/ FinishDone
    \/ FinishOptimiseRaises

\* every recognition of a frame terminates and the threads are scheduled
\* fairly: a worker that can take a step, and the main thread when it can
\* take one, eventually do
Fairness ==
    /\ \A b \in 1..(MaxFrames + 1) : WF_vars(WorkerStep(b))
    /\ WF_vars(MainStep)

\* the program started on the CPU with tuning on and one frame per batch, its
\* threads scheduled fairly
InitFair ==
    /\ Init
    /\ ~CONFIG.use_gpu /\ CONFIG.auto_optimize_perf
    /\ CONFIG.text_extraction_batch_size = 1

SpecFair == InitFair /\ [][Next]_vars /\ Fairness

\* the program with a caller that compares how its calls ended
SpecCaller == InitCaller /\ [][Next]_vars

\* ================================================== Config.config_loader
\* config_schema in the order load_config walks it, one key of each declared
\* type; default is str(default), what create_default_config_file writes
config_schema ==
    <<[section |-> "Text Extraction", key |-> "text_extraction_batch_size",
       typ |-> "int", default |-> "100"],
      [section |-> "Text Extraction", key |-> "text_drop_score",
       typ |-> "float", default |-> "0.6"],
      [section |-> "Text Extraction", key |-> "line_break",
       typ |-> "bool", default |-> "True"],
      [section |-> "Notification", key |-> "win_notify_sound",
       typ |-> "str", default |-> "Default"]>>

SchemaSections == {config_schema[k].section : k \in DOMAIN config_schema}
SchemaKeys(section) ==
    {config_schema[k].key : k \in {n \in DOMAIN config_schema : config_schema[n].section = section}}
SchemaEntry(key) == config_schema[CHOOSE k \in DOMAIN config_schema : config_schema[k].key = key]

\* what a config.ini found on disk may hold for each key
RawValues(key) ==
    CASE key = "text_extraction_batch_size" -> {"100", "50", "abc"}
      [] key = "text_drop_score" -> {"0.6", "0.5", "abc"}
      [] key = "line_break" -> {"True", "no", "maybe"}
      [] key = "win_notify_sound" -> {"Default", "Chime"}

\* int(value): the literals int accepts, and their values
int_literals == {"100", "50"}
int(value) == IF value = "100" THEN 100 ELSE 50

\* float(value): the literals float accepts, and their values in tenths
float_literals == {"0.6", "0.5"}
float(value) == [tenths |-> IF value = "0.6" THEN 6 ELSE 5]

\* value.lower()
lower(value) ==
    CASE value = "True" -> "true"
      [] value = "no" -> "no"
      [] value = "maybe" -> "maybe"

\* typ(value) of _convert raises ValueError
convert_raises(value, typ) ==
    \/ typ = "int" /\ value \notin int_literals
    \/ typ = "float" /\ value \notin float_literals

\* Config._convert, when it returns
convert(value, typ) ==
    CASE typ = "bool" -> lower(value) \in {"1", "true", "yes", "on"}
      [] typ = "int" -> int(value)
      [] typ = "float" -> float(value)
      [] typ = "str" -> value

\* the sections create_default_config_file puts into self.config
DefaultSections ==
    [section \in SchemaSections |->
        [key \in SchemaKeys(section) |-> SchemaEntry(key).default]]

\* every key at its default value
DefaultAttrs ==
    [key \in UNION {SchemaKeys(section) : section \in SchemaSections} |->
        convert(SchemaEntry(key).default, SchemaEntry(key).typ)]

\* the files Config() may find: none, one ConfigParser cannot read, or one
\* with some of the sections, each with some of its keys
SectionContents(section) ==
    UNION {{f \in [K -> UNION {RawValues(key) : key \in K}] :
               \A key \in K : f[key] \in RawValues(key)} : K \in SUBSET SchemaKeys(section)}
SectionMaps ==
    UNION {{m \in [S -> UNION {SectionContents(section) : section \in S}] :
               \A section \in S : m[section] \in SectionContents(section)} :
           S \in SUBSET SchemaSections}
Files ==
    {NoFile}
    \cup {[exists |-> TRUE, parse |-> e, sections |-> <<>>] :
             e \in {"ParsingError", "DuplicateOptionError"}}
    \cup {[exists |-> TRUE, parse |-> "ok", sections |-> m] : m \in SectionMaps}

\* Config.__init__ is entered: self.config is an empty ConfigParser
InitConfig ==
    /\ InitProgram
    /\ CONFIG.use_gpu /\ CONFIG.auto_optimize_perf
    /\ CONFIG.gpu_ocr_processes = DefaultGpuProcesses
    /\ CONFIG.text_extraction_batch_size = 1
    /\ seen = [watching |-> FALSE, views |-> {}]
    /\ InitMergerIdle
    /\ InitUtilIdle
    /\ persisted \in Files
    /\ ini_file = persisted
    /\ parser = <<>>
    /\ attrs = <<>>
    /\ loader_pc = "config_loader"
    /\ resets = 0

stageVars ==
    <<interrupt_process, CONFIG, config_file, config_writes, runs, pc, outcome, exc,
      batch_size, device, no_processes, ocr_engine, files, file_batches, status,
      done_frames, inspected, i, cancel_idx, optimizer, record_calls,
      optimise_calls, reports, text_store, line_sep, text_content, seen>>

\* self.config[section] = {...} for every schema section, then self.config.write(f)
create_default_config_file(p) ==
    [section \in DOMAIN p \cup SchemaSections |->
        IF section \in SchemaSections THEN DefaultSections[section] ELSE p[section]]

\* lines 74-75: a missing file is created from the defaults
config_loader ==
    /\ loader_pc = "config_loader"
    /\ IF ini_file.exists
       THEN UNCHANGED <<ini_file, parser>>
       ELSE /\ parser' = create_default_config_file(parser)
            /\ ini_file' = [exists |-> TRUE, parse |-> "ok", sections |-> parser']
    /\ loader_pc' = "read"
    /\ UNCHANGED <<persisted, attrs, resets, stageVars, mergerVars, utilVars>>

\* ConfigParser.read: the options of the file are put over those already held
read(p, f) ==
    [section \in DOMAIN p \cup DOMAIN f.sections |->
        IF section \notin DOMAIN f.sections THEN p[section]
        ELSE IF section \notin DOMAIN p THEN f.sections[section]
        ELSE [key \in DOMAIN p[section] \cup DOMAIN f.sections[section] |->
                 IF key \in DOMAIN f.sections[section] THEN f.sections[section][key]
                 ELSE p[section][key]]]

\* line 76: self.config.read(self.config_file); ParsingError is caught at line
\* 78, any other configparser error leaves config_loader
config_read ==
    /\ loader_pc = "read"
    /\ IF ini_file.parse = "ok"
       THEN /\ parser' = read(parser, ini_file)
            /\ loader_pc' = "load_config"
       ELSE /\ parser' = parser
            /\ loader_pc' = IF ini_file.parse = "ParsingError" THEN "except" ELSE "raised"
    /\ UNCHANGED <<persisted, ini_file, attrs, resets, stageVars, mergerVars, utilVars>>

\* line 99: raw = self.config[section].get(key, str(default))
raw(p, e) ==
    IF e.key \in DOMAIN p[e.section] THEN p[e.section][e.key] ELSE e.default

\* the walk of load_config raises at entry k: KeyError for a missing section,
\* ValueError from _convert
load_raises(p, k) ==
    \/ config_schema[k].section \notin DOMAIN p
    \/ convert_raises(raw(p, config_schema[k]), config_schema[k].typ)

\* the entries load_config gets through before it raises or ends
loaded_entries(p) ==
    {k \in DOMAIN config_schema : \A n \in 1..k : ~load_raises(p, n)}

\* lines 96-100: setattr for each key in schema order until one raises
load_config ==
    /\ loader_pc = "load_config"
    /\ LET got == {config_schema[k].key : k \in loaded_entries(parser)} IN
       attrs' = [key \in DOMAIN attrs \cup got |->
                    IF key \in got
                    THEN convert(raw(parser, SchemaEntry(key)), SchemaEntry(key).typ)
                    ELSE attrs[key]]
    /\ loader_pc' = IF loaded_entries(parser) = DOMAIN config_schema THEN "loaded"
                    ELSE "except"
    /\ UNCHANGED <<persisted, ini_file, parser, resets, stageVars, mergerVars, utilVars>>

\* lines 78-81: the file is deleted and config_loader starts again
config_reset ==
    /\ loader_pc = "except"
    /\ ini_file' = NoFile
    /\ resets' = resets + 1
    /\ loader_pc' = "config_loader"
    /\ UNCHANGED <<persisted, parser, attrs, stageVars, mergerVars, utilVars>>

NextConfig ==
    \/ config_loader
    \/ config_read
    \/ load_config
    \/ config_reset

\* the construction of the Config singleton on each file it may find
SpecConfig == InitConfig /\ [][NextConfig]_vars

\* ======================================================= SubtitleMerger
\* Texts a frame may carry, as sequences of characters: a subtitle line, the
\* same line with one character misread, a garbled sample, no text at all
Line == <<1, 2, 3, 4, 5, 6, 7>>
LineMisread == <<1, 2, 3, 4, 5, 6, 8>>
Garbled == <<9, 9>>
Empty == <<>>
Texts == {Line, LineMisread, Garbled, Empty}

\* the common blocks a[i..i+k-1] = b[j..j+k-1]
Blocks(a, b) ==
    {x \in (1..Len(a)) \X (1..Len(b)) \X (1..Len(a)) :
        /\ x[1] + x[3] - 1 <= Len(a)
        /\ x[2] + x[3] - 1 <= Len(b)
        /\ \A d \in 0..(x[3] - 1) : a[x[1] + d] = b[x[2] + d]}

\* total length of the matched, non-overlapping, order-preserving blocks:
\* the longest block (the earliest one in a, then in b), then the same on
\* what lies left of it and on what lies right of it
RECURSIVE matched(_, _)
matched(a, b) ==
    IF Blocks(a, b) = {} THEN 0
    ELSE LET best == CHOOSE x \in Blocks(a, b) : \A y \in Blocks(a, b) :
                        \/ x[3] > y[3]
                        \/ x[3] = y[3] /\ x[1] < y[1]
                        \/ x[3] = y[3] /\ x[1] = y[1] /\ x[2] <= y[2]
         IN matched(SubSeq(a, 1, best[1] - 1), SubSeq(b, 1, best[2] - 1))
            + best[3]
            + matched(SubSeq(a, best[1] + best[3], Len(a)),
                      SubSeq(b, best[2] + best[3], Len(b)))

\* similarity(a, b) >= pct / 100, with similarity = 2 * matched / (len(a) + len(b))
\* and 1.0 for two empty strings
similarity_reaches(a, b, pct) ==
    IF Len(a) + Len(b) = 0 THEN TRUE
    ELSE 2 * matched(a, b) * 100 >= pct * (Len(a) + Len(b))

\* the pairs of Texts whose similarity reaches the default threshold
SimilarAtDefault ==
    UNION {IF similarity_reaches(p[1], p[2], DefaultMergerConfig.text_similarity_threshold)
           THEN {p} ELSE {} : p \in Texts \X Texts}

\* similarity(a, b) against the configured threshold
similar(a, b, cfg) ==
    IF cfg.text_similarity_threshold = DefaultMergerConfig.text_similarity_threshold
    THEN <<a, b>> \in SimilarAtDefault
    ELSE similarity_reaches(a, b, cfg.text_similarity_threshold)

\* the frame sampler's strides, in ms
Strides == {40, 300}

\* the configurations merge runs under: the filter for short cues on or off,
\* the noise tolerance from none upwards
MergerConfigs ==
    {[DefaultMergerConfig EXCEPT !.min_sub_duration_ms = d, !.max_consecutive_short_durs = n] :
        d \in {0, DefaultMergerConfig.min_sub_duration_ms}, n \in 0..MaxNoiseTolerance}

\* the FrameText sequences: frame_index and timestamp_ms strictly increasing
FrameTexts(n, stride, texts) ==
    [k \in 1..n |-> [frame_index |-> k, timestamp_ms |-> (k - 1) * stride, text |-> texts[k]]]

\* SubtitleMerger.merge is called on some FrameText sequence
InitMerge ==
    /\ InitProgram
    /\ CONFIG.use_gpu /\ CONFIG.auto_optimize_perf
    /\ CONFIG.gpu_ocr_processes = DefaultGpuProcesses
    /\ CONFIG.text_extraction_batch_size = 1
    /\ seen = [watching |-> FALSE, views |-> {}]
    /\ InitLoaderIdle
    /\ InitUtilIdle
    /\ \E n \in 0..MaxFrameTexts, stride \in Strides :
          \E texts \in [1..n -> Texts] : frame_texts = FrameTexts(n, stride, texts)
    /\ merger_config \in MergerConfigs
    /\ cues = <<>>
    /\ merge_pc = "called"

\* a group of the scan
NoGroup == [open |-> FALSE, text |-> Empty, start_ms |-> 0, end_ms |-> 0, noise |-> 0]
OpenGroup(f) ==
    [open |-> TRUE, text |-> f.text, start_ms |-> f.timestamp_ms,
     end_ms |-> f.timestamp_ms, noise |-> 0]
Cue(g) == [start_ms |-> g.start_ms, end_ms |-> g.end_ms, text |-> g.text]

\* the frame does not continue the group: it is empty or below the threshold
IsNoise(g, f, cfg) == f.text = Empty \/ ~similar(g.text, f.text, cfg)

\* no noise is ever tolerated
Tolerated_Never(g, cfg) == FALSE

\* the noise is tolerated: the counter is within max_consecutive_short_durs and
\* the group has lasted less than min_consecutive_sub_dur_ms so far
Tolerated(g, cfg) ==
    /\ g.noise + 1 <= cfg.max_consecutive_short_durs
    /\ g.end_ms - g.start_ms < cfg.min_consecutive_sub_dur_ms

\* the scan, from frame k on, with the open group g and the cues closed so far
RECURSIVE scan(_, _, _, _, _)
scan(fts, k, g, out, cfg) ==
    IF k > Len(fts) THEN (IF g.open THEN Append(out, Cue(g)) ELSE out)
    ELSE LET f == fts[k] IN
         IF ~g.open THEN scan(fts, k + 1, OpenGroup(f), out, cfg)
         ELSE IF ~IsNoise(g, f, cfg)
              THEN scan(fts, k + 1, [g EXCEPT !.end_ms = f.timestamp_ms, !.noise = 0],
                        out, cfg)
         ELSE IF Tolerated(g, cfg)
              THEN scan(fts, k + 1,
                        [g EXCEPT !.end_ms = f.timestamp_ms, !.noise = g.noise + 1],
                        out, cfg)
         ELSE scan(fts, k + 1, OpenGroup(f), Append(out, Cue(g)), cfg)

\* duration(name) = end - start
duration(c) == c.end_ms - c.start_ms

\* the first pass keeps every cue, whatever its duration
drop_short_KeepAll(cs, cfg) == cs

\* post-processing, first pass: cues shorter than min_sub_duration_ms are dropped
drop_short(cs, cfg) ==
    SelectSeq(cs, LAMBDA c : duration(c) >= cfg.min_sub_duration_ms)

\* CueName.merge(name_a, name_b): the start of a, the end of b
CueName_merge(a, b) == [a EXCEPT !.end_ms = b.end_ms]

\* two surviving neighbours are exactly or near-adjacent: one ends before the
\* other starts and only dropped cues lie between them
near_adjacent(a, b) == a.end_ms <= b.start_ms

\* the texts are mutually similar above the threshold
mutually_similar(a, b, cfg) == similar(a.text, b.text, cfg) /\ similar(b.text, a.text, cfg)

\* the second pass leaves the cues as the first pass gave them
merge_adjacent_Skipped(cs, k, out, cfg) == cs

\* post-processing, second pass: each cue is merged into the one before it
\* when the two are mutually similar and near-adjacent
RECURSIVE merge_adjacent(_, _, _, _)
merge_adjacent(cs, k, out, cfg) ==
    IF k > Len(cs) THEN out
    ELSE IF Len(out) > 0 /\ mutually_similar(out[Len(out)], cs[k], cfg)
            /\ near_adjacent(out[Len(out)], cs[k])
         THEN merge_adjacent(cs, k + 1,
                             [out EXCEPT ![Len(out)] = CueName_merge(@, cs[k])], cfg)
         ELSE merge_adjacent(cs, k + 1, Append(out, cs[k]), cfg)

\* SubtitleMerger.merge(frame_texts) -> [Cue]
merge(fts, cfg) ==
    merge_adjacent(drop_short(scan(fts, 1, NoGroup, <<>>, cfg), cfg), 1, <<>>, cfg)

\* the call of merge returns
SubtitleMerger_merge ==
    /\ merge_pc = "called"
    /\ cues' = merge(frame_texts, merger_config)
    /\ merge_pc' = "returned"
    /\ UNCHANGED <<frame_texts, merger_config, stageVars, loaderVars, utilVars>>

NextMerge == SubtitleMerger_merge

\* SubtitleMerger.merge on every FrameText sequence within the bounds
SpecMerge == InitMerge /\ [][NextMerge]_vars

\* ================================================================ CueName
\* str(float): the digits of a time given in tenths of a millisecond
Digit(d) == <<"0", "1", "2", "3", "4", "5", "6", "7", "8", "9">>[d + 1]

RECURSIVE Digits(_)
Digits(n) == IF n < 10 THEN <<Digit(n)>> ELSE Digits(n \div 10) \o <<Digit(n % 10)>>

name_str(t) == Digits(t \div 10) \o <<".">> \o <<Digit(t % 10)>>

\* float(text): the time a text of digits with one decimal stands for
DigitValue(c) == CHOOSE d \in 0..9 : Digit(d) = c

RECURSIVE Value(_)
Value(digs) ==
    IF Len(digs) = 0 THEN 0
    ELSE Value(SubSeq(digs, 1, Len(digs) - 1)) * 10 + DigitValue(digs[Len(digs)])

name_float(text) ==
    LET dot == CHOOSE k \in 1..Len(text) : text[k] = "."
    IN Value(SubSeq(text, 1, dot - 1)) * 10 + Value(SubSeq(text, dot + 1, Len(text)))

\* encode(start_ms, end_ms) = "{start}--{end}"
encode(start, end) == name_str(start) \o <<"-", "-">> \o name_str(end)

\* name.split("--"): where the separator begins
split_at(name) ==
    CHOOSE k \in 1..(Len(name) - 1) :
        /\ name[k] = "-" /\ name[k + 1] = "-"
        /\ \A j \in 1..(k - 1) : ~(name[j] = "-" /\ name[j + 1] = "-")

start_of(name) == name_float(SubSeq(name, 1, split_at(name) - 1))
end_of(name) == name_float(SubSeq(name, split_at(name) + 2, Len(name)))

\* decode(name) = (start, end)
decode(name) == <<start_of(name), end_of(name)>>

\* the first name, whatever the second is
similar_text_name_gen_First(start_name, end_name) == start_name

\* the name made of the end of the first name and the start of the second
similar_text_name_gen_Swapped(start_name, end_name) ==
    encode(start_of(end_name), end_of(start_name))

\* CueName.merge(name_a, name_b) = encode(start_of(name_a), end_of(name_b))
similar_text_name_gen(start_name, end_name) ==
    encode(start_of(start_name), end_of(end_name))

\* duration(name) = end_of(name) - start_of(name)
name_to_duration(name) == end_of(name) - start_of(name)

\* the start and end times of the spans: multiples of the sampler's strides,
\* on the millisecond or half a millisecond later, in tenths of a millisecond
Times == {(k * s) * 10 + f : k \in 0..MaxSpanPoints, s \in Strides, f \in {0, 5}}

\* the stage is idle under one fixed configuration
InitStageIdle ==
    /\ InitProgram
    /\ CONFIG.use_gpu /\ CONFIG.auto_optimize_perf
    /\ CONFIG.gpu_ocr_processes = DefaultGpuProcesses
    /\ CONFIG.text_extraction_batch_size = 1
    /\ seen = [watching |-> FALSE, views |-> {}]

\* similar_text_name_gen is called on the names of two spans
InitCueName ==
    /\ InitStageIdle
    /\ InitMergerIdle
    /\ InitLoaderIdle
    /\ span_a \in Times \X Times
    /\ span_b \in Times \X Times
    /\ name_a = encode(span_a[1], span_a[2])
    /\ name_b = encode(span_b[1], span_b[2])
    /\ merged_name = <<>>
    /\ util_args = [fn |-> "none"] /\ util_result = <<>>
    /\ util_pc = "called"

\* the call of similar_text_name_gen returns
CueName_merge_call ==
    /\ util_pc = "called"
    /\ merged_name' = similar_text_name_gen(name_a, name_b)
    /\ util_pc' = "returned"
    /\ UNCHANGED <<span_a, span_b, name_a, name_b, util_args, util_result,
                   stageVars, mergerVars, loaderVars>>

NextCueName == CueName_merge_call

\* CueName.merge on the names of every two spans within the bounds
SpecCueName == InitCueName /\ [][NextCueName]_vars

\* ======================================================= timecode (utils)
\* "%0<width>d" % n
pad(n, width) ==
    LET digs == Digits(n)
    IN IF Len(digs) >= width THEN digs
       ELSE [k \in 1..(width - Len(digs)) |-> "0"] \o digs

\* a float of milliseconds: the whole milliseconds and the first decimal
Ms(whole, tenth) == [whole |-> whole, tenth |-> tenth]

\* timecode with the hours wrapped at 24
timecode_Wrapped(frame_no_in_milliseconds) ==
    LET total_seconds == frame_no_in_milliseconds.whole \div 1000
        milliseconds_remainder == frame_no_in_milliseconds.whole % 1000
        seconds == total_seconds % 60
        minutes == (total_seconds \div 60) % 60
        hours == (total_seconds \div 3600) % 24
    IN pad(hours, 2) \o <<":">> \o pad(minutes, 2) \o <<":">> \o pad(seconds, 2)
       \o <<",">> \o pad(milliseconds_remainder, 3)

\* timecode(frame_no_in_milliseconds): // and % on the float, then %d, which
\* cuts the decimals of the remainder
timecode(frame_no_in_milliseconds) ==
    LET total_seconds == frame_no_in_milliseconds.whole \div 1000
        milliseconds_remainder == frame_no_in_milliseconds.whole % 1000
        seconds == total_seconds % 60
        minutes == (total_seconds \div 60) % 60
        hours == total_seconds \div 3600
    IN pad(hours, 2) \o <<":">> \o pad(minutes, 2) \o <<":">> \o pad(seconds, 2)
       \o <<",">> \o pad(milliseconds_remainder, 3)

\* text.replace(",", ":")
replace_comma(text) == [k \in 1..Len(text) |-> IF text[k] = "," THEN ":" ELSE text[k]]

\* (frame_no / fps) * 1000, to the first decimal
frame_no_to_ms(frame_no, fps) ==
    Ms((frame_no * 1000) \div fps, ((frame_no * 10000) \div fps) % 10)

\* frame_no_to_duration with the comma left in place
frame_no_to_duration_Comma(frame_no, fps) == timecode(frame_no_to_ms(frame_no, fps))

\* frame_no_to_duration(frame_no, fps)
frame_no_to_duration(frame_no, fps) ==
    replace_comma(timecode(frame_no_to_ms(frame_no, fps)))

\* the offsets timecode is called with: up to more than 100 hours, with and
\* without decimals
TimecodeInputs ==
    {Ms(((h * 60 + m) * 60 + s) * 1000 + r, t) :
        h \in {0, 1, 27, 105}, m \in {0, 11, 59}, s \in {0, 19, 59},
        r \in {0, 36, 869, 999}, t \in {0, 7}}

\* the frame numbers and frame rates frame_no_to_duration is called with
FrameNos == 0..MaxFrameNo \cup {369, 457, 739, 915}
FpsValues == {24, 30}

\* timecode or frame_no_to_duration is called
InitTimecode ==
    /\ InitStageIdle
    /\ InitMergerIdle
    /\ InitLoaderIdle
    /\ span_a = <<0, 0>> /\ span_b = <<0, 0>>
    /\ name_a = <<>> /\ name_b = <<>> /\ merged_name = <<>>
    /\ \/ \E ms \in TimecodeInputs : util_args = [fn |-> "timecode", ms |-> ms]
       \/ \E n \in FrameNos, fps \in FpsValues :
             util_args = [fn |-> "frame_no_to_duration", frame_no |-> n, fps |-> fps]
    /\ util_result = <<>>
    /\ util_pc = "called"

\* the call of timecode returns
timecode_call ==
    /\ util_pc = "called"
    /\ util_args.fn = "timecode"
    /\ util_result' = timecode(util_args.ms)
    /\ util_pc' = "returned"
    /\ UNCHANGED <<util_args, span_a, span_b, name_a, name_b, merged_name,
                   stageVars, mergerVars, loaderVars>>

\* the call of frame_no_to_duration returns
frame_no_to_duration_call ==
    /\ util_pc = "called"
    /\ util_args.fn = "frame_no_to_duration"
    /\ util_result' = frame_no_to_duration(util_args.frame_no, util_args.fps)
    /\ util_pc' = "returned"
    /\ UNCHANGED <<util_args, span_a, span_b, name_a, name_b, merged_name,
                   stageVars, mergerVars, loaderVars>>

NextTimecode == timecode_call \/ frame_no_to_duration_call

\* timecode and frame_no_to_duration on every input within the bounds
SpecTimecode == InitTimecode /\ [][NextTimecode]_vars

\* ============================================ SubtitleDetector (padding)
\* config_schema["Subtitle Detection"]: sub_area_x_rel_padding in percent,
\* sub_area_y_abs_padding in pixels
DefaultPadX == 90
DefaultPadY == 25

\* round(num / den) for num >= 0: to the nearest integer, a half to the even one
round(num, den) ==
    LET q == num \div den
        r == num % den
    IN IF 2 * r > den THEN q + 1
       ELSE IF 2 * r = den THEN q + (q % 2)
       ELSE q

\* the padding with the band half as far from the frame's edges
pad_sub_area_Halved(top_left, bottom_right, frame_width, pad_x, pad_y) ==
    LET x_padding == round(frame_width * (100 - pad_x), 200)
    IN <<<<x_padding, top_left[2] - pad_y>>,
         <<frame_width - x_padding, bottom_right[2] + pad_y>>>>

\* SubtitleDetector._pad_sub_area(top_left, bottom_right): a centred band that
\* leaves frame_width * (1 - sub_area_x_rel_padding) on each side, and the
\* detected rows widened by sub_area_y_abs_padding
pad_sub_area(top_left, bottom_right, frame_width, pad_x, pad_y) ==
    LET x_padding == round(frame_width * (100 - pad_x), 100)
    IN <<<<x_padding, top_left[2] - pad_y>>,
         <<frame_width - x_padding, bottom_right[2] + pad_y>>>>

\* the frames, extents and paddings _pad_sub_area is called with
FrameWidths == {1280, 1366, 1920}
TopLefts == {288, 698} \X {148, 158}
BottomRights == {1218, 1632} \X {224, 234}
PadXs == {80, 85, DefaultPadX}
PadYs == {0, DefaultPadY}

\* _pad_sub_area is called
InitPad ==
    /\ InitStageIdle
    /\ InitMergerIdle
    /\ InitLoaderIdle
    /\ span_a = <<0, 0>> /\ span_b = <<0, 0>>
    /\ name_a = <<>> /\ name_b = <<>> /\ merged_name = <<>>
    /\ \E tl \in TopLefts, br \in BottomRights, w \in FrameWidths,
          px \in PadXs, py \in PadYs :
          util_args = [fn |-> "_pad_sub_area", top_left |-> tl, bottom_right |-> br,
                       frame_width |-> w, sub_area_x_rel_padding |-> px,
                       sub_area_y_abs_padding |-> py]
    /\ util_result = <<>>
    /\ util_pc = "called"

\* the call of _pad_sub_area returns
pad_sub_area_call ==
    /\ util_pc = "called"
    /\ util_args.fn = "_pad_sub_area"
    /\ util_result' = pad_sub_area(util_args.top_left, util_args.bottom_right,
                                   util_args.frame_width, util_args.sub_area_x_rel_padding,
                                   util_args.sub_area_y_abs_padding)
    /\ util_pc' = "returned"
    /\ UNCHANGED <<util_args, span_a, span_b, name_a, name_b, merged_name,
                   stageVars, mergerVars, loaderVars>>

NextPad == pad_sub_area_call

\* _pad_sub_area on every extent, frame width and padding within the sets
SpecPad == InitPad /\ [][NextPad]_vars

\* ============================================================ cmd (CLI)
\* config_schema["Subtitle Detection"]: split_start and split_stop, in hundredths
DefaultSplitStart == 25
DefaultSplitStop == 50

\* a float: a number of hundredths, or not a number
Num(h) == [nan |-> FALSE, h |-> h]
NaN == [nan |-> TRUE, h |-> 0]

\* what may follow --split-start or --split-stop on the command line;
\* "absent" when the option is not given
OptionTexts == {"absent", "-0.1", "0.0", "0.25", "0.5", "0.75", "1.0", "1.5", "nan", "half"}

\* float(value) raises ValueError
float_raises(value) == value = "half"

\* float(value)
parse_float(value) ==
    CASE value = "-0.1" -> Num(-10)
      [] value = "0.0" -> Num(0)
      [] value = "0.25" -> Num(25)
      [] value = "0.5" -> Num(50)
      [] value = "0.75" -> Num(75)
      [] value = "1.0" -> Num(100)
      [] value = "1.5" -> Num(150)
      [] value = "nan" -> NaN

\* val < bound and val > bound on floats: false whenever val is not a number
float_lt(val, bound) == ~val.nan /\ val.h < bound
float_gt(val, bound) == ~val.nan /\ val.h > bound

\* parse_float_range(value, min_val, max_val) raises ArgumentTypeError
parse_float_range_raises(value, min_val, max_val) ==
    IF float_raises(value) THEN TRUE
    ELSE float_lt(parse_float(value), min_val) \/ float_gt(parse_float(value), max_val)

\* the parser's types of the two options: the ranges [0.0, 0.5] and [0.5, 1.0]
split_start_rejected(value) == value # "absent" /\ parse_float_range_raises(value, 0, 50)
split_stop_rejected(value) == value # "absent" /\ parse_float_range_raises(value, 50, 100)

\* the window of the configuration as loaded from the defaults
DefaultWindow == [split_start |-> Num(DefaultSplitStart), split_stop |-> Num(DefaultSplitStop)]

\* the program is started with some --split-start and --split-stop
InitCli ==
    /\ InitStageIdle
    /\ InitMergerIdle
    /\ InitLoaderIdle
    /\ span_a = <<0, 0>> /\ span_b = <<0, 0>>
    /\ name_a = <<>> /\ name_b = <<>> /\ merged_name = <<>>
    /\ \E a \in OptionTexts, b \in OptionTexts :
          util_args = [fn |-> "update_config_from_args", split_start |-> a, split_stop |-> b]
    /\ util_result = DefaultWindow
    /\ util_pc = "called"

\* parser.parse_args rejects an option: the program exits, CONFIG is untouched
parse_args_rejects ==
    /\ util_pc = "called"
    /\ util_args.fn = "update_config_from_args"
    /\ split_start_rejected(util_args.split_start) \/ split_stop_rejected(util_args.split_stop)
    /\ util_pc' = "rejected"
    /\ UNCHANGED <<util_args, util_result, span_a, span_b, name_a, name_b, merged_name,
                   stageVars, mergerVars, loaderVars>>

\* update_config_from_args(args): every option that is not None goes to
\* CONFIG.set_config; util_result holds the window CONFIG has afterwards
update_config_from_args ==
    /\ util_pc = "called"
    /\ util_args.fn = "update_config_from_args"
    /\ ~split_start_rejected(util_args.split_start)
    /\ ~split_stop_rejected(util_args.split_stop)
    /\ util_result' =
          [split_start |-> IF util_args.split_start = "absent" THEN util_result.split_start
                           ELSE parse_float(util_args.split_start),
           split_stop |-> IF util_args.split_stop = "absent" THEN util_result.split_stop
                          ELSE parse_float(util_args.split_stop)]
    /\ util_pc' = "returned"
    /\ UNCHANGED <<util_args, span_a, span_b, name_a, name_b, merged_name,
                   stageVars, mergerVars, loaderVars>>

NextCli == parse_args_rejects \/ update_config_from_args

\* the command line with every combination of the two options
SpecCli == InitCli /\ [][NextCli]_vars

\* ================================================================= claims
FramesOf(b) == {file_batches[b][j] : j \in 1..Len(file_batches[b])}
InspectedFailure == \E b \in inspected : status[b] = "failed"
CallOver == pc = "idle" /\ runs > 0

\* C1: once frames_to_text has inspected a batch in which a recognition
\* raised, the call is on its way out with that exception and ends by
\* raising it: optimise_performance is never invoked and the call never
\* ends as done.
C1_FailFast ==
    InspectedFailure =>
        /\ pc \in {"exit_raising", "idle"}
        /\ optimise_calls = 0
        /\ outcome # "done"
        /\ pc = "idle" => (outcome = "raised" /\ exc = "WorkerError")

\* C1 witness: a call has ended by raising the failure of an inspected batch
C1_Witness ==
    /\ CallOver
    /\ InspectedFailure
    /\ outcome = "raised"
    /\ exc = "WorkerError"

\* C2 as stated: from the batch completion at which the set flag is seen,
\* no batch that is still pending is ever started, the call returns
\* without raising, and a cancelled batch writes nothing.
C2_Original ==
    [][(pc \in {"cancelling", "exit_cancelled"}) =>
          \A b \in BatchIds : status[b] = "pending" => status'[b] # "running"]_vars

\* C2 amended: when the flag is set at the check that follows a successfully
\* inspected batch, the call walks the futures and cancels each batch that is
\* still pending when its turn comes; a cancelled batch never starts and
\* writes no artifact; a batch a free worker takes before its turn still
\* runs; the call returns without raising, and then no batch is pending or
\* running.
C2_CancelInv ==
    /\ \A b \in BatchIds :
          status[b] = "cancelled" => (done_frames[b] = 0 /\ FramesOf(b) \cap text_store = {})
    /\ pc = "cancelling" => \A b \in BatchIds : b < cancel_idx => status[b] # "pending"
    /\ pc = "exit_cancelled" => Pending = {}
    /\ (CallOver /\ outcome = "cancelled") =>
          (exc = "none" /\ Pending = {} /\ Running = {} /\ optimise_calls = 0)

C2_CancelStep ==
    /\ \A b \in BatchIds :
          (status[b] = "cancelled" /\ pc # "idle") =>
              (status'[b] = "cancelled" /\ done_frames'[b] = 0)
    /\ (pc = "loop" /\ i' = i + 1 /\ interrupt_process) => (pc' = "cancelling" /\ cancel_idx' = 1)
    /\ (pc = "cancelling" /\ cancel_idx' = cancel_idx + 1 /\ status[cancel_idx] = "pending")
          => status'[cancel_idx] = "cancelled"
    /\ (pc # "cancelling" /\ pc' = "cancelling") => (pc = "loop" /\ interrupt_process)

C2_Cancellation == []C2_CancelInv /\ [][C2_CancelStep]_vars

\* C2 witness: a call returned after cancelling a pending batch while
\* another batch, started before its turn in cancel_futures, ran to its end
C2_Witness ==
    /\ CallOver
    /\ outcome = "cancelled"
    /\ \E b \in BatchIds : status[b] = "cancelled"
    /\ \E b \in BatchIds : status[b] = "finished" /\ b \notin inspected

\* C3: what the caller holds after a call that ended by cancellation differs
\* from what it holds after a call that completed every batch and from what
\* it holds after a call that failed.
CallerView(o) == [ret |-> o.ret, flag |-> o.flag, texts |-> o.texts, cfg |-> o.cfg]

C3_Distinguishable ==
    \A o1, o2 \in seen.views :
        (o1.kind \in {"cancelled", "interrupted"} /\ o2.kind \in {"done", "raised"})
            => CallerView(o1) # CallerView(o2)

C4_NoPreemptInv ==
    (CallOver /\ outcome = "cancelled") =>
        \A b \in BatchIds :
            /\ status[b] \in {"cancelled", "finished", "failed"}
            /\ status[b] = "finished" =>
                  (done_frames[b] = Len(file_batches[b]) /\ FramesOf(b) \subseteq text_store)
            /\ status[b] = "failed" => done_frames[b] < Len(file_batches[b])

C4_NoPreemptStep ==
    /\ \A b \in BatchIds :
          status[b] = "running" => status'[b] \in {"running", "finished", "failed"}
    /\ \A b \in BatchIds :
          (status[b] = "running" /\ status'[b] = "running" /\ pc # "idle")
              => done_frames'[b] >= done_frames[b]
    /\ (pc # "cancelling" /\ pc' = "cancelling") => (pc = "loop" /\ i' = i + 1)
    /\ (outcome' = "interrupted" /\ runs' = runs + 1) => pc = "idle"

C5_EntryStep ==
    (pc = "idle" /\ interrupt_process /\ runs' = runs + 1) =>
        /\ pc' = "idle"
        /\ outcome' = "interrupted"
        /\ exc' = "none"
        /\ ocr_engine' = FALSE
        /\ file_batches' = <<>>
        /\ status' = <<>>
        /\ text_store' = {}
        /\ optimizer' = NoOptimizer
        /\ optimise_calls' = 0
        /\ record_calls' = 0
        /\ UNCHANGED <<CONFIG, config_file, config_writes, interrupt_process>>

C5_InterruptedOnEntry == [][C5_EntryStep]_vars

\* C5 witness: two calls in a row returned at once under the set flag
C5_Witness ==
    /\ CallOver
    /\ runs >= 2
    /\ interrupt_process
    /\ outcome = "interrupted"
    /\ config_writes = 0
    /\ ~ocr_engine

\* C6: the worker counts the optimiser produces and persists are never below 1.
C6_WorkersAtLeastOne ==
    /\ CONFIG.cpu_ocr_processes >= 1
    /\ CONFIG.gpu_ocr_processes >= 1
    /\ config_file.cpu_ocr_processes >= 1
    /\ config_file.gpu_ocr_processes >= 1

\* C7: started at most at the number of physical cores, cpu_ocr_processes is
\* never raised above it, in the optimiser, in CONFIG and in the file.
C7_CpuAtMostCores ==
    /\ CONFIG.cpu_ocr_processes <= PhysicalCores
    /\ config_file.cpu_ocr_processes <= PhysicalCores
    /\ optimizer.kind = "perf" => optimizer.cpu_ocr_processes <= PhysicalCores

\* C7 witness: a CPU run whose mean was below the low threshold ended with
\* the worker count at the number of physical cores
C7_Witness ==
    /\ CallOver
    /\ outcome = "done"
    /\ optimizer.kind = "perf"
    /\ ~optimizer.use_gpu
    /\ Len(optimizer.cpu_percentages) >= 1
    /\ Sum(optimizer.cpu_percentages) < CpuLow * Len(optimizer.cpu_percentages)
    /\ optimizer.cpu_ocr_processes = PhysicalCores
    /\ CONFIG.cpu_ocr_processes = PhysicalCores

\* the step in which optimise_performance of a PerformanceOptimiser returns
OptimiseReturns ==
    /\ pc = "loop"
    /\ inspected = BatchIds
    /\ optimizer.kind = "perf"
    /\ outcome' = "done"

ActiveCount(o) == IF o.use_gpu THEN o.gpu_ocr_processes ELSE o.cpu_ocr_processes
IdleCount(o) == IF o.use_gpu THEN o.cpu_ocr_processes ELSE o.gpu_ocr_processes

\* C8: optimise_performance drops the newest sample, takes the mean m of the
\* others of the active device and changes that device's worker count by +1
\* when m < low (CPU 80, GPU 40; on CPU only below the number of cores), by
\* -1 when m > high (CPU 95, GPU 65), by 0 when low <= m <= high.
C8_Step ==
    OptimiseReturns =>
        LET gpu == optimizer.use_gpu
            recorded == IF gpu THEN optimizer.gpu_percentages ELSE optimizer.cpu_percentages
            rest == SubSeq(recorded, 1, Len(recorded) - 1)
            low == IF gpu THEN 40 ELSE 80
            high == IF gpu THEN 65 ELSE 95
            below == Sum(rest) < low * Len(rest)
            above == Sum(rest) > high * Len(rest)
            old == ActiveCount(optimizer)
            new == ActiveCount(optimizer')
        IN  /\ Len(rest) >= 1
            /\ ActiveSamples(optimizer') = rest
            /\ (below /\ (gpu \/ old < PhysicalCores)) => new = old + 1
            /\ (below /\ ~gpu /\ old >= PhysicalCores) => new = old
            /\ above => new = old - 1
            /\ (~below /\ ~above) => new = old
            /\ IdleCount(optimizer') = IdleCount(optimizer)

C8_TuningRule == [][C8_Step]_vars

\* C8 witness: a CPU run ended with the mean of the kept samples exactly at
\* the low threshold and the worker count left as it was
C8_Witness ==
    /\ CallOver
    /\ outcome = "done"
    /\ optimizer.kind = "perf"
    /\ ~optimizer.use_gpu
    /\ Len(optimizer.cpu_percentages) >= 2
    /\ Sum(optimizer.cpu_percentages) = 80 * Len(optimizer.cpu_percentages)
    /\ optimizer.cpu_ocr_processes < PhysicalCores
    /\ optimizer.cpu_ocr_processes = CONFIG.cpu_ocr_processes
    /\ config_writes = 0

\* C9: when optimise_performance returns, CONFIG and config.ini hold the
\* optimiser's worker count; set_config ran in that step if and only if the
\* count differs from the one loaded when the optimiser was built, and the
\* store was left untouched otherwise.
C9_Step ==
    OptimiseReturns =>
        LET loaded == ActiveCount(optimizer)
            result == ActiveCount(optimizer')
        IN  /\ ActiveCount(CONFIG') = result
            /\ ActiveCount([use_gpu |-> optimizer.use_gpu,
                            cpu_ocr_processes |-> config_file'.cpu_ocr_processes,
                            gpu_ocr_processes |-> config_file'.gpu_ocr_processes]) = result
            /\ config_writes' \in {config_writes, config_writes + 1}
            /\ (config_writes' = config_writes + 1) <=> (result # loaded)
            /\ (result = loaded) => UNCHANGED <<CONFIG, config_file, config_writes>>

C9_SavedIffChanged == [][C9_Step]_vars

\* C9 witness: a run ended with a changed worker count written to the store
C9_Witness ==
    /\ CallOver
    /\ outcome = "done"
    /\ optimizer.kind = "perf"
    /\ config_writes >= 1
    /\ config_file = TunedKeys(optimizer)
    /\ ActiveCount(CONFIG) = ActiveCount(optimizer)

\* C10: while the loop runs record_perf has been called once per inspected
\* batch and optimise_performance not at all; optimise_performance is called
\* at most once, only when every batch has finished and was inspected, and a
\* call that ends as done has called it once, with one sample per batch.
C10_RecordAndOptimise ==
    /\ optimise_calls <= 1
    /\ pc = "loop" =>
          /\ optimise_calls = 0
          /\ record_calls = Cardinality(inspected)
          /\ optimizer.kind = "perf" => Len(ActiveSamples(optimizer)) = record_calls
    /\ optimise_calls = 1 =>
          /\ CallOver
          /\ inspected = BatchIds
          /\ \A b \in BatchIds : status[b] = "finished"
          /\ record_calls = Len(file_batches)
    /\ (CallOver /\ outcome = "done") =>
          /\ optimise_calls = 1
          /\ optimizer.kind = "perf" => Len(ActiveSamples(optimizer)) + 1 = Len(file_batches)

\* C10 witness: a tuned run of several batches has ended as done
C10_Witness ==
    /\ CallOver
    /\ outcome = "done"
    /\ optimizer.kind = "perf"
    /\ Len(file_batches) >= 2
    /\ record_calls = Len(file_batches)
    /\ optimise_calls = 1

\* C11: the optimiser writes the configuration store only after the worker
\* pool of the run has finished: in the step that executes set_config no
\* batch of the run is running or pending, every batch has finished and was
\* inspected, and the pool is gone when the write is done.
C11_Step ==
    (config_writes' # config_writes \/ CONFIG' # CONFIG \/ config_file' # config_file) =>
        /\ Running = {} /\ Pending = {}
        /\ \A b \in BatchIds : status[b] = "finished" /\ b \in inspected
        /\ optimise_calls' = optimise_calls + 1
        /\ ~PoolAlive'

C11_WriteAfterPool == [][C11_Step]_vars

\* C11 witness: a run on a pool of two workers that had two batches in
\* flight at once has ended with the tuned worker count written
C11_Witness ==
    /\ CallOver
    /\ outcome = "done"
    /\ config_writes = 1
    /\ no_processes = 2
    /\ Len(file_batches) >= 2
    /\ \A b \in BatchIds : status[b] = "finished"
    /\ CONFIG.cpu_ocr_processes = 1

\* C12: with auto_optimize_perf off frames_to_text runs on a
\* NullPerformanceOptimiser, no step of any run changes the persisted worker
\* counts and intra-thread settings or the loaded CONFIG, and the runner still
\* calls record_perf once per inspected batch and optimise_performance once
\* after the loop, as it does with tuning on.
C12_NullInv ==
    ~CONFIG.auto_optimize_perf =>
        /\ config_writes = 0
        /\ config_file = TunedKeys(CONFIG)
        /\ optimizer.kind \in {"none", "null"}
        /\ pc # "idle" => optimizer.kind = "null"
        /\ pc = "loop" => (record_calls = Cardinality(inspected) /\ optimise_calls = 0)
        /\ (CallOver /\ inspected = BatchIds /\ outcome \in {"done", "raised"}
               /\ ~InspectedFailure /\ optimizer.kind = "null") =>
              /\ outcome = "done"
              /\ record_calls = Len(file_batches)
              /\ optimise_calls = 1

C12_NullStep ==
    ~CONFIG.auto_optimize_perf => UNCHANGED <<CONFIG, config_file, config_writes>>

C12_NullOptimiser == []C12_NullInv /\ [][C12_NullStep]_vars

\* C12 witness: the second run without tuning has ended as done after
\* several batches, each recorded, and one optimise call
C12_Witness ==
    /\ CallOver
    /\ runs = 2
    /\ outcome = "done"
    /\ ~CONFIG.auto_optimize_perf
    /\ optimizer.kind = "null"
    /\ Len(file_batches) >= 2
    /\ record_calls = Len(file_batches)
    /\ optimise_calls = 1

\* C13: when frames_to_text is over and every batch of the run has finished
\* (no cancellation took a batch, no recognition raised), text_output holds
\* one <stem>.txt for every frame listed from frame_output and nothing else.
C13_OneTextPerFrame ==
    (CallOver /\ ocr_engine /\ no_processes > 0
        /\ \A b \in BatchIds : status[b] = "finished") =>
        /\ text_store = 1..files
        /\ DOMAIN text_content = 1..files
        /\ Cardinality(text_store) = files

\* C13 witness: a run over three frames in two batches has ended as done
\* with the three text files
C13_Witness ==
    /\ CallOver
    /\ outcome = "done"
    /\ files = 3
    /\ Len(file_batches) = 2
    /\ text_store = {1, 2, 3}

\* C14: the batches of a run partition its frames: every listed frame is at
\* one position of one batch, no batch is empty or longer than the batch
\* size and all but the last have exactly the batch size; a batch is started
\* once, from pending, so no frame is in the hands of two workers and no two
\* workers are about to write the same text file.
BatchesListed == ocr_engine /\ runs > 0
CurrentFrame(b) == file_batches[b][done_frames[b] + 1]

Partition(batches, n, bs) ==
    LET Frames(b) == {batches[b][j] : j \in 1..Len(batches[b])} IN
    /\ \A f \in 1..n : \E b \in DOMAIN batches : f \in Frames(b)
    /\ \A b1, b2 \in DOMAIN batches : b1 # b2 => Frames(b1) \cap Frames(b2) = {}
    /\ \A b \in DOMAIN batches :
          /\ Frames(b) \subseteq 1..n
          /\ Cardinality(Frames(b)) = Len(batches[b])
          /\ Len(batches[b]) >= 1
          /\ Len(batches[b]) <= bs
          /\ b < Len(batches) => Len(batches[b]) = bs

C14_WorkersInv ==
    BatchesListed =>
        /\ \A b1, b2 \in Running :
              b1 # b2 => /\ FramesOf(b1) \cap FramesOf(b2) = {}
                         /\ CurrentFrame(b1) # CurrentFrame(b2)
        /\ \A b \in BatchIds : done_frames[b] <= Len(file_batches[b])
        /\ Cardinality(Running) <= no_processes

C14_OneWorkerStep ==
    /\ (ocr_engine' /\ runs' # runs) => Partition(file_batches', files', batch_size')
    /\ runs' = runs => UNCHANGED <<file_batches, files, batch_size>>
    /\ (pc # "idle" /\ pc' # "idle") =>
          \A b \in BatchIds :
              /\ (status[b] # "running" /\ status'[b] = "running") =>
                     (status[b] = "pending" /\ done_frames[b] = 0)
              /\ status[b] # "pending" => status'[b] # "pending"
              /\ done_frames'[b] # done_frames[b] =>
                     (status[b] = "running" /\ done_frames'[b] = done_frames[b] + 1)

C14_BatchesPartition == []C14_WorkersInv /\ [][C14_OneWorkerStep]_vars

\* C14 witness: two workers are at work on two batches of three frames, the
\* second batch being the short last one
C14_Witness ==
    /\ pc = "loop"
    /\ files = 3
    /\ batch_size = 2
    /\ Running = {1, 2}
    /\ done_frames[1] = 1
    /\ Len(file_batches[2]) = 1

\* C15: the content of text_output after a run whose batches all finished is
\* a function of the listed frames and of CONFIG.line_break alone: each file
\* holds the recognised lines of its own frame joined by the separator,
\* whatever the worker count was and in whatever order the batches ran,
\* finished and were inspected. Two such runs over the same frames under the
\* same configuration therefore leave the same content.
ExpectedTexts(n, line_break) ==
    [f \in 1..n |-> join(IF line_break THEN "\n" ELSE " ", rec_texts(f))]

C15_ContentDetermined ==
    (CallOver /\ ocr_engine /\ no_processes > 0
        /\ \A b \in BatchIds : status[b] = "finished") =>
        text_content = ExpectedTexts(files, CONFIG.line_break)

\* C15 witness: a run of two workers over three frames has ended as done;
\* the file of frame 2 holds its two lines joined by a blank
C15_Witness ==
    /\ CallOver
    /\ outcome = "done"
    /\ no_processes = 2
    /\ files = 3
    /\ batch_size = 1
    /\ ~CONFIG.line_break
    /\ text_content[2] = <<(<<"line", 2, 1>>), " ", (<<"line", 2, 2>>)>>
    /\ text_content[3] = <<>>

ValidText(value, typ) ==
    CASE typ = "int" -> value \in int_literals
      [] typ = "float" -> value \in float_literals
      [] typ = "bool" -> lower(value) \in {"1", "yes", "true", "on", "0", "no", "false", "off"}
      [] typ = "str" -> TRUE

Malformed(f) ==
    /\ f.exists
    /\ \/ f.parse # "ok"
       \/ \E k \in DOMAIN config_schema :
             LET e == config_schema[k] IN
             \/ e.section \notin DOMAIN f.sections
             \/ e.key \notin DOMAIN f.sections[e.section]
             \/ ~ValidText(f.sections[e.section][e.key], e.typ)

C17_ResetOnMalformed ==
    Malformed(persisted) =>
        /\ loader_pc # "raised"
        /\ loader_pc = "loaded" =>
              /\ resets >= 1
              /\ attrs = DefaultAttrs
              /\ ini_file.sections = DefaultSections

\* ---------------------------------------------------------------- C18
\* the input of the noise-tolerance contract: every frame but sample p carries
\* a text, these texts are similar to one another above the threshold, and
\* sample p, inside the sequence, is empty or garbled
NoisySample(fts, p, cfg) ==
    /\ 1 < p /\ p < Len(fts)
    /\ fts[p].text = Empty \/ ~similar(fts[1].text, fts[p].text, cfg)
    /\ \A k \in (1..Len(fts)) \ {p} :
          /\ fts[k].text # Empty
          /\ \A j \in (1..Len(fts)) \ {p} : similar(fts[j].text, fts[k].text, cfg)

\* one cue, from the first frame to the last, with the text of the first
SingleCueSpanning(fts, cs) ==
    /\ Len(cs) = 1
    /\ cs[1].start_ms = fts[1].timestamp_ms
    /\ cs[1].end_ms = fts[Len(fts)].timestamp_ms
    /\ cs[1].text = fts[1].text

\* C18 as stated: whatever the position of the noisy sample and whatever
\* duration the group has accumulated before it, merge returns a single cue
\* spanning the frames on both sides
C18_Original ==
    merge_pc = "returned" =>
        \A p \in 1..Len(frame_texts) :
            NoisySample(frame_texts, p, merger_config)
                => SingleCueSpanning(frame_texts, cues)

\* C18: one isolated empty or garbled sample between frames of similar text
\* yields a single cue spanning the frames on both sides when the tolerance
\* max_consecutive_short_durs is at least 1, the group has lasted less than
\* min_consecutive_sub_dur_ms when the noisy sample arrives, and the whole
\* span reaches min_sub_duration_ms
C18_NoiseTolerated ==
    merge_pc = "returned" =>
        \A p \in 1..Len(frame_texts) :
            ( /\ NoisySample(frame_texts, p, merger_config)
              /\ merger_config.max_consecutive_short_durs >= 1
              /\ frame_texts[p - 1].timestamp_ms - frame_texts[1].timestamp_ms
                    < merger_config.min_consecutive_sub_dur_ms
              /\ frame_texts[Len(frame_texts)].timestamp_ms - frame_texts[1].timestamp_ms
                    >= merger_config.min_sub_duration_ms )
                => SingleCueSpanning(frame_texts, cues)

\* a garbled fourth sample of five, after a misread second one, under the
\* default filter for short cues: one cue from the first frame to the fifth
C18_Witness ==
    /\ merge_pc = "returned"
    /\ Len(frame_texts) = 5
    /\ NoisySample(frame_texts, 4, merger_config)
    /\ frame_texts[4].text = Garbled
    /\ frame_texts[2].text = LineMisread
    /\ merger_config.max_consecutive_short_durs >= 1
    /\ merger_config.min_sub_duration_ms = DefaultMergerConfig.min_sub_duration_ms
    /\ SingleCueSpanning(frame_texts, cues)

\* ---------------------------------------------------------------- C19
\* C19: the cues merge returns are in ascending time order, each cue ends no
\* later than the next one starts, and every cue has end_ms > start_ms
C19_CuesOrdered ==
    merge_pc = "returned" =>
        /\ \A k \in 1..(Len(cues) - 1) :
              /\ cues[k].start_ms < cues[k + 1].start_ms
              /\ cues[k].end_ms <= cues[k + 1].start_ms
        /\ \A k \in 1..Len(cues) : cues[k].end_ms > cues[k].start_ms

ScanGroups == scan(frame_texts, 1, NoGroup, <<>>, merger_config)

\* C21: every cue merge returns lasts at least min_sub_duration_ms, and no
\* group the scan closed with a shorter duration (a single-frame group has
\* duration 0) is among the returned cues
C21_NoShortCue ==
    merge_pc = "returned" =>
        /\ \A k \in 1..Len(cues) :
              duration(cues[k]) >= merger_config.min_sub_duration_ms
        /\ \A j \in 1..Len(ScanGroups) :
              duration(ScanGroups[j]) < merger_config.min_sub_duration_ms
                  => \A k \in 1..Len(cues) : cues[k] # ScanGroups[j]

\* under the default filter the scan closes a single-frame group next to a
\* group that lasts long enough: the first is dropped, the second returned
C21_Witness ==
    /\ merge_pc = "returned"
    /\ merger_config.min_sub_duration_ms = DefaultMergerConfig.min_sub_duration_ms
    /\ \E j \in 1..Len(ScanGroups) :
          /\ duration(ScanGroups[j]) = 0
          /\ \A k \in 1..Len(cues) : cues[k] # ScanGroups[j]
    /\ Len(cues) >= 1
    /\ Len(cues) < Len(ScanGroups)
    /\ \A k \in 1..Len(cues) :
          duration(cues[k]) >= DefaultMergerConfig.min_sub_duration_ms

\* ---------------------------------------------------------------- C22
\* a valid cue name encodes a span with start <= end
ValidName(name) == start_of(name) <= end_of(name)

\* C22 as stated: for all valid names a and b the merged name lasts at least
\* as long as the longer of the two, also when one span contains the other
C22_Original ==
    (util_pc = "returned" /\ ValidName(name_a) /\ ValidName(name_b)) =>
        name_to_duration(merged_name)
            >= Max(name_to_duration(name_a), name_to_duration(name_b))

\* C22: for valid names a and b where a starts no later than b starts and
\* ends no later than b ends (b follows a, overlaps it or touches it), the
\* merged name lasts at least as long as the longer of the two
C22_MergeNotShorter ==
    (/\ util_pc = "returned" /\ ValidName(name_a) /\ ValidName(name_b)
     /\ start_of(name_a) <= start_of(name_b)
     /\ end_of(name_a) <= end_of(name_b)) =>
        name_to_duration(merged_name)
            >= Max(name_to_duration(name_a), name_to_duration(name_b))

\* two overlapping spans, neither inside the other: the merged name covers
\* both and lasts longer than either
C22_Witness ==
    /\ util_pc = "returned"
    /\ ValidName(name_a) /\ ValidName(name_b)
    /\ start_of(name_a) < start_of(name_b)
    /\ start_of(name_b) < end_of(name_a)
    /\ end_of(name_a) < end_of(name_b)
    /\ name_to_duration(merged_name) > name_to_duration(name_a)
    /\ name_to_duration(merged_name) > name_to_duration(name_b)

\* ---------------------------------------------------------------- C23
\* C23: merge of encode(s1, e1) and encode(s2, e2) decodes to (s1, e2), and
\* merging a name with itself returns that name
C23_MergeStartEnd ==
    util_pc = "returned" =>
        /\ decode(name_a) = span_a
        /\ decode(name_b) = span_b
        /\ decode(merged_name) = <<span_a[1], span_b[2]>>
        /\ name_a = name_b => merged_name = name_a

\* two names with different starts and different ends, the first span ending
\* before the second starts: the merged name has the first start and the
\* second end
C23_Witness ==
    /\ util_pc = "returned"
    /\ span_a[1] < span_a[2]
    /\ span_a[2] < span_b[1]
    /\ span_b[1] < span_b[2]
    /\ merged_name = encode(span_a[1], span_b[2])
    /\ merged_name # name_a
    /\ merged_name # name_b

\* ---------------------------------------------------------------- C24
\* the whole milliseconds of the offset a call was given
CalledMs ==
    IF util_args.fn = "timecode" THEN util_args.ms.whole
    ELSE frame_no_to_ms(util_args.frame_no, util_args.fps).whole

\* HH:MM:SS<sep>mmm for the offset a call was given: HH = floor(ms / 3600000),
\* MM = floor(ms / 60000) mod 60, SS = floor(ms / 1000) mod 60, mmm = floor(ms mod 1000)
Expected(sep) ==
    pad(CalledMs \div 3600000, 2) \o <<":">> \o pad((CalledMs \div 60000) % 60, 2)
    \o <<":">> \o pad((CalledMs \div 1000) % 60, 2) \o <<sep>> \o pad(CalledMs % 1000, 3)

\* the number a run of digits stands for, from position a to position b
Field(text, a, b) == Value(SubSeq(text, a, b))

\* C24: timecode(ms) is HH:MM:SS,mmm with the hours in at least two digits and
\* not wrapped at 24, MM and SS in 0..59 and mmm in 0..999;
\* frame_no_to_duration(n, fps) is timecode(n / fps * 1000) with the comma
\* replaced by a colon
C24_Timecode ==
    util_pc = "returned" =>
        LET n == Len(util_result)
        IN /\ util_args.fn = "timecode" => util_result = Expected(",")
           /\ util_args.fn = "frame_no_to_duration" =>
                 /\ util_result = Expected(":")
                 /\ util_result = replace_comma(
                        timecode(frame_no_to_ms(util_args.frame_no, util_args.fps)))
           /\ n >= 12
           /\ Field(util_result, 1, n - 10) = CalledMs \div 3600000
           /\ Field(util_result, n - 8, n - 7) \in 0..59
           /\ Field(util_result, n - 5, n - 4) \in 0..59
           /\ Field(util_result, n - 2, n) \in 0..999

\* timecode(97879869) = "27:11:19,869": more than 24 hours, not wrapped
C24_Witness ==
    /\ util_pc = "returned"
    /\ util_args.fn = "timecode"
    /\ util_args.ms.whole = 97879869
    /\ util_result = <<"2", "7", ":", "1", "1", ":", "1", "9", ",", "8", "6", "9">>

\* ---------------------------------------------------------------- C25
\* the call is the one of test__pad_sub_area under the default configuration
DefaultPadCall ==
    /\ util_args.top_left = <<698, 158>>
    /\ util_args.bottom_right = <<1218, 224>>
    /\ util_args.frame_width = 1920
    /\ util_args.sub_area_x_rel_padding = DefaultPadX
    /\ util_args.sub_area_y_abs_padding = DefaultPadY

C26_WindowOrdered ==
    (util_pc = "returned" /\ util_args.fn = "update_config_from_args") =>
        /\ ~util_result.split_start.nan
        /\ ~util_result.split_stop.nan
        /\ 0 <= util_result.split_start.h
        /\ util_result.split_start.h < util_result.split_stop.h
        /\ util_result.split_stop.h <= 100

\* ---------------------------------------------------------------- C27
\* C27: once a failed batch was inspected and its failure is on its way to
\* the caller, no batch that had not started is started and no text of such
\* a batch is written
C27_Step ==
    pc = "exit_raising" =>
        /\ \A b \in BatchIds : status[b] = "pending" => status'[b] = "pending"
        /\ \A b \in BatchIds : done_frames[b] = 0 => done_frames'[b] = 0

C27_FailFastAborts == [][C27_Step]_vars

\* ---------------------------------------------------------------- C28
\* C28: at the end of every run whose batches all completed and were all
\* inspected, optimise_performance completes and the call returns; it does
\* not raise, whatever the number of batches
C28_Step == (AllInspected /\ pc' = "idle") => (outcome' = "done" /\ exc' = "none")

C28_OptimiseCompletes == [][C28_Step]_vars

\* ---------------------------------------------------------------- C29
\* the configuration store: the Config attributes, config.ini, the writes
ConfigStore == <<CONFIG, config_file, config_writes>>

\* C29: optimise_performance is entered, and the configuration store changed,
\* only by the step that ends a run whose batches were all inspected; a run
\* that ends interrupted on entry, cancelled at a batch boundary or with a
\* worker failure has not invoked optimise_performance and no step of it has
\* touched the store
C29_Step ==
    /\ (ConfigStore' # ConfigStore \/ optimise_calls' > optimise_calls)
          => (AllInspected /\ pc' = "idle")
    /\ (pc' = "idle" /\ (outcome' \in {"interrupted", "cancelled"} \/ exc' = "WorkerError"))
          => (optimise_calls' = 0 /\ ConfigStore' = ConfigStore)

C29_NoOptimiseWhenAborted == [][C29_Step]_vars

\* a tuned run of three batches was cancelled at the check after the third:
\* two samples were recorded, the optimiser was not invoked, nothing was saved
C29_Witness ==
    /\ pc = "idle"
    /\ outcome = "cancelled"
    /\ optimizer.kind = "perf"
    /\ Len(file_batches) = 3
    /\ record_calls = 2
    /\ optimise_calls = 0
    /\ config_file = TunedKeys(CONFIG)

\* ---------------------------------------------------------------- C30
\* how a call that got a pool of at least one worker may have ended
EndedAsClaimed ==
    \/ outcome = "done" /\ optimise_calls = 1
    \/ outcome = "raised" /\ exc \in {"IndexError", "ZeroDivisionError"} /\ optimise_calls = 1
    \/ outcome = "cancelled" /\ optimise_calls = 0
    \/ outcome = "raised" /\ exc = "WorkerError" /\ optimise_calls = 0

\* C30: with terminating recognition and fair scheduling every call of
\* frames_to_text that has a pool of at least one worker eventually returns
\* or raises, and it ends by completing all batches and running
\* optimise_performance, by cancellation or by a worker failure
C30_EventuallyEnds ==
    /\ (pc # "idle") ~> (pc = "idle")
    /\ [][(pc # "idle" /\ pc' = "idle") => (no_processes >= 1 /\ EndedAsClaimed')]_vars

\* cancellation was requested while batches were queued: the queued batches
\* were cancelled and the call has returned
C30_Witness ==
    /\ pc = "idle"
    /\ outcome = "cancelled"
    /\ \E b \in BatchIds : status[b] = "cancelled"
    /\ \E b \in BatchIds : status[b] = "finished" /\ b \notin inspected

====
